---- MODULE Spec2Model ----
(***************************************************************************)
(* Model of the Paiptree news collector: rss_scraper.py (9-column sheet,   *)
(* comprehensive deduplication, timestamp ids) and rss_scraper_enhanced.py *)
(* (21-column sheet, duplicate check by URL, scanned sequence ids).        *)
(*                                                                         *)
(* Text is modelled as sequences of one-character strings, so that         *)
(* slicing, lower-casing, stripping and substring tests are computed and   *)
(* not assumed.                                                            *)
(***************************************************************************)
EXTENDS Integers, Sequences, FiniteSets, TLC

VARIABLES
    all_news_items,   \* main / deduplicate_news_comprehensive: the collected records
    unique_news,      \* the list deduplicate_news_comprehensive returned
    unique_again,     \* deduplicate_news_comprehensive applied to its own output
    dpc,              \* position of the deduplication study: "input", "deduped", "again"
    script,           \* which script runs: "rss_scraper" or "rss_scraper_enhanced"
    feed,             \* fetch_rss_news: what feedparser.parse returns for rss_url
    keywords,         \* fetch_rss_news: the keyword list
    initial_mode,     \* fetch_rss_news: INITIAL_COLLECTION=true
    news_items,       \* fetch_rss_news: the list it returned
    fpc,              \* position of the fetch study: "feed", "fetched"
    google_creds,     \* GOOGLE_CREDENTIALS: "missing", "invalid" (not JSON) or "valid"
    sheets_id,        \* GOOGLE_SHEETS_ID: "missing" or "set"
    pc,               \* where main is
    runs,             \* how many runs of main have started
    clock,            \* time.time(), in ticks of half a second
    ops,              \* network operations of the current run, by kind
    fetched,          \* current run: per fetched feed, whether it failed and what it returned
    next_i,           \* current run: index of the next record to add to the sheet
    total_collected,  \* current run: how many add_news_to_sheet calls returned True
    exit_code,        \* exit status of the current run ("none" while it runs)
    worksheet,        \* the data rows of the news_data worksheet
    racer,            \* overlapping runs: each run's position in add_news_to_sheet
    retry,            \* _fetch_with_retry: its position, loop variable, requests and sleeps
    scraper,          \* ArticleImageScraper: the page or URL it is given and what it returns
    uploader          \* GoogleDriveUploader: its folder id, Drive requests and result

dedupVars == <<all_news_items, unique_news, unique_again, dpc>>
fetchVars == <<script, feed, keywords, initial_mode, news_items, fpc>>
mainVars  == <<google_creds, sheets_id, pc, runs, clock, ops, fetched, next_i,
               total_collected, exit_code, worksheet, racer, retry, scraper, uploader>>
vars == <<all_news_items, unique_news, unique_again, dpc,
          script, feed, keywords, initial_mode, news_items, fpc,
          google_creds, sheets_id, pc, runs, clock, ops, fetched, next_i,
          total_collected, exit_code, worksheet, racer, retry, scraper, uploader>>

(***************************************************************************)
(* Bounds                                                                  *)
(***************************************************************************)
MaxItems == 3        \* longest record list handed to the deduplicator
MaxEntries == 2      \* most entries in one parsed feed
Now == 10            \* datetime.now() during a fetch, in days
NumFeeds == 2        \* how many of the RSS_FEEDS a run polls
MaxRuns == 2         \* runs of main against the same worksheet
NumRacers == 2       \* runs of the enhanced script that overlap in time
MaxRetries == 4      \* largest max_retries an ArticleImageScraper is constructed with
MaxImages == 16      \* most minimum-size content images on one article page

(***************************************************************************)
(* Text helpers (Python str operations)                                    *)
(***************************************************************************)
UpperToLower == [c \in {"A", "B", "G", "L", "O", "P", "U", "X"} |->
                    CASE c = "A" -> "a" [] c = "B" -> "b" [] c = "G" -> "g" [] c = "L" -> "l"
                      [] c = "O" -> "o" [] c = "P" -> "p" [] c = "U" -> "u" [] c = "X" -> "x"]

\* str.lower() on one character
LowerChar(c) == IF c \in DOMAIN UpperToLower THEN UpperToLower[c] ELSE c

\* str.lower()
Lower(s) == [i \in 1..Len(s) |-> LowerChar(s[i])]

\* Python's \s / str.strip() whitespace
IsSpace(c) == c \in {" ", "\t", "\n"}

\* Python's \w under re.UNICODE: letters, digits, underscore
Letters == {"a", "b", "c", "d", "e", "f", "g", "h", "i", "j", "k", "l", "m",
            "n", "o", "p", "q", "r", "s", "t", "u", "v", "w", "x", "y", "z",
            "A", "B", "G", "L", "O", "P", "U", "X"}
Digits == {"0", "1", "2", "3", "4", "5", "6", "7", "8", "9"}
IsWord(c) == c \in Letters \cup Digits \cup {"_"}

\* s[lo..hi] (1-based, inclusive), empty when lo > hi
Slice(s, lo, hi) == IF lo > hi THEN <<>> ELSE SubSeq(s, lo, hi)

\* a slice that keeps one character too many
PrefixOffByOne(s, n) == IF Len(s) <= n + 1 THEN s ELSE SubSeq(s, 1, n + 1)

\* s[:n]
Prefix(s, n) == IF Len(s) <= n THEN s ELSE SubSeq(s, 1, n)

\* str.strip()
Strip(s) ==
    LET keep == {i \in 1..Len(s) : ~IsSpace(s[i])}
    IN  IF keep = {} THEN <<>>
        ELSE LET lo == CHOOSE i \in keep : \A j \in keep : i <= j
                 hi == CHOOSE i \in keep : \A j \in keep : i >= j
             IN  SubSeq(s, lo, hi)

\* sub occurs in s at position i
OccursAt(sub, s, i) ==
    /\ i + Len(sub) - 1 <= Len(s)
    /\ \A k \in 1..Len(sub) : s[i + k - 1] = sub[k]

\* Python's `sub in s`
Contains(sub, s) == \E i \in 1..(Len(s) + 1) : OccursAt(sub, s, i)

\* s.split(sep)[0] for a one-character separator
SplitFirst(s, sep) ==
    LET hits == {i \in 1..Len(s) : s[i] = sep}
    IN  IF hits = {} THEN s
        ELSE SubSeq(s, 1, (CHOOSE i \in hits : \A j \in hits : i <= j) - 1)

(***************************************************************************)
(* difflib.SequenceMatcher(None, a, b).ratio() for sequences shorter than  *)
(* 200 elements (no autojunk), as used by calculate_similarity             *)
(***************************************************************************)
RECURSIVE MatchLen(_, _, _, _, _, _)
\* length of the common run that starts at a[i], b[j] and stays within a[..ahi], b[..bhi]
MatchLen(a, b, i, j, ahi, bhi) ==
    IF i > ahi \/ j > bhi THEN 0
    ELSE IF a[i] # b[j] THEN 0
    ELSE 1 + MatchLen(a, b, i + 1, j + 1, ahi, bhi)

\* find_longest_match: the longest block, earliest in a, then earliest in b
FindLongestMatch(a, b, alo, ahi, blo, bhi) ==
    LET cand == {<<i, j>> \in (alo..ahi) \X (blo..bhi) : a[i] = b[j]}
    IN  IF cand = {} THEN [i |-> alo, j |-> blo, k |-> 0]
        ELSE LET best == CHOOSE p \in cand :
                    \A q \in cand :
                        LET kp == MatchLen(a, b, p[1], p[2], ahi, bhi)
                            kq == MatchLen(a, b, q[1], q[2], ahi, bhi)
                        IN  \/ kp > kq
                            \/ kp = kq /\ p[1] < q[1]
                            \/ kp = kq /\ p[1] = q[1] /\ p[2] <= q[2]
             IN  [i |-> best[1], j |-> best[2],
                  k |-> MatchLen(a, b, best[1], best[2], ahi, bhi)]

RECURSIVE MatchTotal(_, _, _, _, _, _)
\* get_matching_blocks: total size of the blocks found left and right of the longest one
MatchTotal(a, b, alo, ahi, blo, bhi) ==
    IF alo > ahi \/ blo > bhi THEN 0
    ELSE LET m == FindLongestMatch(a, b, alo, ahi, blo, bhi)
         IN  IF m.k = 0 THEN 0
             ELSE m.k + MatchTotal(a, b, alo, m.i - 1, blo, m.j - 1)
                      + MatchTotal(a, b, m.i + m.k, ahi, m.j + m.k, bhi)

\* ratio() as the fraction <<numerator, denominator>>; 1.0 for two empty sequences
Ratio(a, b) ==
    IF Len(a) + Len(b) = 0 THEN <<1, 1>>
    ELSE <<2 * MatchTotal(a, b, 1, Len(a), 1, Len(b)), Len(a) + Len(b)>>

(***************************************************************************)
(* rss_scraper.py: deduplication                                           *)
(***************************************************************************)
\* re.sub(r'[^\w]', '', title): drop spaces and punctuation
StripNonWord(title) == SelectSeq(title, IsWord)

\* calculate_similarity: ratio of the two stripped titles, as <<numerator, denominator>>
calculate_similarity(title1, title2) == Ratio(StripNonWord(title1), StripNonWord(title2))

\* `similarity > 0.85`
SimilarityThresholdPct == 85
AboveThreshold(sim) == sim[1] * 100 > SimilarityThresholdPct * sim[2]

\* news['title'].lower().strip()
DedupTitle(news) == Strip(Lower(news.title))

\* news['original_url'].split('?')[0]
CleanUrl(news) == SplitFirst(news.original_url, "?")

\* the state of the deduplication loop before its first iteration
DedupStart == [unique_news |-> <<>>, seen_titles |-> <<>>, seen_urls |-> {}]

\* a loop that keeps the record but forgets its URL
KeepNewsForgetUrl(st, news) ==
    [unique_news |-> Append(st.unique_news, news),
     seen_titles |-> Append(st.seen_titles, DedupTitle(news)),
     seen_urls   |-> st.seen_urls]

\* a loop that puts each kept record in front of the earlier ones
KeepNewsPrepend(st, news) ==
    [unique_news |-> <<news>> \o st.unique_news,
     seen_titles |-> Append(st.seen_titles, DedupTitle(news)),
     seen_urls   |-> st.seen_urls \cup {CleanUrl(news)}]

\* what the loop does with a record that is neither a URL nor a title duplicate
KeepNews(st, news) ==
    [unique_news |-> Append(st.unique_news, news),
     seen_titles |-> Append(st.seen_titles, DedupTitle(news)),
     seen_urls   |-> st.seen_urls \cup {CleanUrl(news)}]

\* a title loop that finds no title similar
IsSimilarToNone(title, seen_titles) == FALSE

\* a title loop that takes every seen title for a similar one
IsSimilarToAnySeen(title, seen_titles) == seen_titles # <<>>

\* the title loop: some seen title is more than 85% similar to the new one
IsSimilarToSeen(title, seen_titles) ==
    \E k \in 1..Len(seen_titles) :
        AboveThreshold(calculate_similarity(title, seen_titles[k]))

\* one iteration of the loop of deduplicate_news_comprehensive
DedupIteration(st, news) ==
    IF CleanUrl(news) \in st.seen_urls THEN st
    ELSE IF IsSimilarToSeen(DedupTitle(news), st.seen_titles) THEN st
    ELSE KeepNews(st, news)

RECURSIVE DedupLoop(_, _, _)
DedupLoop(st, items, i) ==
    IF i > Len(items) THEN st
    ELSE DedupLoop(DedupIteration(st, items[i]), items, i + 1)

\* deduplicate_news_comprehensive(all_news_items)
deduplicate_news_comprehensive(items) == DedupLoop(DedupStart, items, 1).unique_news

(***************************************************************************)
(* rss_scraper.py: text normalisation                                      *)
(***************************************************************************)
\* the characters of s at the positions (in order) that satisfy Keep
KeepPositions(s, Keep(_)) ==
    LET idx == SelectSeq([i \in 1..Len(s) |-> i], Keep)
    IN  [k \in 1..Len(idx) |-> s[idx[k]]]

SetMax(S) == CHOOSE x \in S : \A y \in S : x >= y
SetMin(S) == CHOOSE x \in S : \A y \in S : x <= y

SourceSeparator == <<" ", "-", " ">>
UnknownSource == <<"U", "n", "k", "n", "o", "w", "n">>

\* extract_source_from_title: split at the last " - "
extract_source_from_title(title) ==
    LET hits == {i \in 1..Len(title) : OccursAt(SourceSeparator, title, i)}
    IN  IF hits = {} THEN [clean_title |-> title, source |-> UnknownSource]
        ELSE LET i == SetMax(hits)
             IN  [clean_title |-> Strip(Slice(title, 1, i - 1)),
                  source      |-> Strip(Slice(title, i + Len(SourceSeparator), Len(title)))]

\* the words clean_source_name removes from the end of a source
SuffixNews  == <<"n", "w">>     \* stands for the two characters of "뉴스"
SuffixPaper == <<"s", "m">>     \* stands for the two characters of "신문"
SuffixDaily == <<"i", "b">>     \* stands for the two characters of "일보"
MinSourceLen == 2

\* s ends with suf
EndsWith(s, suf) == Len(s) >= Len(suf) /\ OccursAt(suf, s, Len(s) - Len(suf) + 1)

\* s without its trailing whitespace
RStrip(s) ==
    LET keep == {i \in 1..Len(s) : ~IsSpace(s[i])}
    IN  IF keep = {} THEN <<>> ELSE SubSeq(s, 1, SetMax(keep))

\* re.sub(r'\s*suf$', '', s)
RemoveSuffix(s, suf) ==
    IF EndsWith(s, suf) THEN RStrip(SubSeq(s, 1, Len(s) - Len(suf))) ELSE s

\* re.sub(r'\.{2,}$', '', s)
RemoveTrailingDots(s) ==
    LET nondot == {i \in 1..Len(s) : s[i] # "."}
        last == IF nondot = {} THEN 0 ELSE SetMax(nondot)
    IN  IF Len(s) - last >= 2 THEN Slice(s, 1, last) ELSE s

\* a clean_source_name that returns the source as it is
SourceAsIs(source) == source

\* clean_source_name: the cleaners are applied one after the other
clean_source_name(source) ==
    IF source = <<>> \/ source = UnknownSource THEN source
    ELSE LET clean_source ==
                 RemoveTrailingDots(Strip(
                     RemoveSuffix(RemoveSuffix(RemoveSuffix(source, SuffixNews),
                                               SuffixPaper), SuffixDaily)))
         IN  IF Len(Strip(clean_source)) < MinSourceLen THEN source
             ELSE Strip(clean_source)

SchemeMark == <<":", "/", "/">>

\* urlparse(url).netloc for a URL of the form scheme://host... (a scheme of
\* letters) or //host..., else ""
Netloc(url) ==
    LET at == {i \in 2..Len(url) : /\ OccursAt(SchemeMark, url, i)
                                    /\ \A j \in 1..(i - 1) : url[j] \in Letters}
                \cup {i \in {0} : OccursAt(<<"/", "/">>, url, 1)}
    IN  IF at = {} THEN <<>>
        ELSE LET start == SetMin(at) + Len(SchemeMark)
                 ends == {i \in start..Len(url) : url[i] \in {"/", "?", "#"}}
             IN  Slice(url, start, IF ends = {} THEN Len(url) ELSE SetMin(ends) - 1)

WwwPrefix == <<"w", "w", "w", ".">>

\* extract_domain_name: the first label of the host, without a leading www.
extract_domain_name(url) ==
    LET netloc == Netloc(url)
        domain == IF OccursAt(WwwPrefix, netloc, 1)
                  THEN Slice(netloc, Len(WwwPrefix) + 1, Len(netloc)) ELSE netloc
    IN  IF domain = <<>> THEN UnknownSource ELSE SplitFirst(domain, ".")

\* fetch_rss_news: the source of the title, cleaned, or the domain of the link
CategoryOf(title, link) ==
    LET source == clean_source_name(extract_source_from_title(title).source)
    IN  IF source = UnknownSource THEN extract_domain_name(link) ELSE source

\* re.sub(r'<[^>]+>', '', s): a match runs from a "<" to the first ">" after
\* it, with at least one character in between; matches are taken leftmost
RemoveTags(s) ==
    LET lts == {i \in 1..Len(s) : s[i] = "<"}
        gts == {i \in 1..Len(s) : s[i] = ">"}
        InTag(p) ==
            LET q    == SetMax({j \in gts : j < p} \cup {0})
                open == {i \in lts : q < i /\ i <= p}
                later == {j \in gts : j >= p}
            IN  /\ open # {}
                /\ later # {}
                /\ SetMin(later) >= SetMin(open) + 2
    IN  KeepPositions(s, LAMBDA p : ~InTag(p))

EntityLt  == <<"&", "l", "t", ";">>
EntityGt  == <<"&", "g", "t", ";">>
EntityAmp == <<"&", "a", "m", "p", ";">>

\* html.unescape for the named references &lt; &gt; &amp;
Unescape(s) ==
    LET amps == {i \in 1..Len(s) : s[i] = "&"}
        EntLen(i) == IF OccursAt(EntityLt, s, i) THEN Len(EntityLt)
                     ELSE IF OccursAt(EntityGt, s, i) THEN Len(EntityGt)
                     ELSE IF OccursAt(EntityAmp, s, i) THEN Len(EntityAmp)
                     ELSE 0
        Covered(p) == \E i \in amps : i < p /\ p < i + EntLen(i)
        Decoded(p) == IF OccursAt(EntityLt, s, p) THEN "<"
                      ELSE IF OccursAt(EntityGt, s, p) THEN ">"
                      ELSE s[p]
        idx == SelectSeq([i \in 1..Len(s) |-> i], LAMBDA p : ~Covered(p))
    IN  [k \in 1..Len(idx) |-> Decoded(idx[k])]

\* re.sub(r'\s+', ' ', s).strip()
CollapseSpace(s) ==
    LET first == SelectSeq([i \in 1..Len(s) |-> i],
                           LAMBDA p : ~IsSpace(s[p]) \/ p = 1 \/ ~IsSpace(s[p - 1]))
    IN  Strip([k \in 1..Len(first) |-> IF IsSpace(s[first[k]]) THEN " " ELSE s[first[k]]])

\* the characters the last re.sub of clean_description keeps
IsDescriptionChar(c) ==
    IsWord(c) \/ IsSpace(c) \/ c \in {".", ",", "!", "?", ":", ";", "(", ")", "-", "'", "\""}

\* "뉴스 내용은 원문 링크에서 확인하세요" (20 characters, "k" for a Hangul syllable)
DescriptionPlaceholder ==
    <<"k", "k", " ", "k", "k", "k", " ", "k", "k", " ",
      "k", "k", "k", "k", " ", "k", "k", "k", "k", "k">>

\* "제목 없음"
TitlePlaceholder == <<"k", "k", " ", "k", "k">>

TitleLimit == 200
DescriptionLimit == 500
MinDescriptionLen == 10

\* clean_description
clean_description(raw_description) ==
    IF raw_description = <<>> THEN DescriptionPlaceholder
    ELSE LET clean_text ==
                 SelectSeq(CollapseSpace(Unescape(RemoveTags(raw_description))),
                           IsDescriptionChar)
         IN  IF clean_text = <<>> \/ Len(Strip(clean_text)) < MinDescriptionLen
             THEN DescriptionPlaceholder
             ELSE Prefix(clean_text, DescriptionLimit)

(***************************************************************************)
(* Feed entries (feedparser) and the publish date                          *)
(***************************************************************************)
NoDate  == -1     \* the field is absent (or None)
BadDate == -2     \* the field is present but does not convert to a datetime

IsUsable(d) == d # NoDate /\ d # BadDate

\* a datetime is its day; dateutil.parser.parse returns a timezone-aware
\* datetime when the string names a zone, written here as the day plus
\* AwareOffset (datetime(*struct[:6]) and datetime.now() are always naive)
AwareOffset == 100
Aware(day) == day + AwareOffset
IsAware(d) == d >= AwareOffset
DayOf(d) == IF IsAware(d) THEN d - AwareOffset ELSE d

\* the order the comment in extract_publish_date announces
extract_publish_date_as_commented(entry, now) ==
    IF IsUsable(entry.published_parsed) THEN entry.published_parsed
    ELSE IF IsUsable(entry.published) THEN entry.published
    ELSE IF IsUsable(entry.updated_parsed) THEN entry.updated_parsed
    ELSE IF IsUsable(entry.updated) THEN entry.updated
    ELSE now

\* extract_publish_date: published_parsed, updated_parsed, published, updated, now
extract_publish_date(entry, now) ==
    IF IsUsable(entry.published_parsed) THEN entry.published_parsed
    ELSE IF IsUsable(entry.updated_parsed) THEN entry.updated_parsed
    ELSE IF IsUsable(entry.published) THEN entry.published
    ELSE IF IsUsable(entry.updated) THEN entry.updated
    ELSE now

\* entry.get('description', '') or entry.get('summary', '')
EntryDescription(entry) ==
    IF entry.description # <<>> THEN entry.description ELSE entry.summary

\* a comprehension that lost its condition
MatchedKeywordsUnfiltered(kws, content_to_check) == kws

\* [kw for kw in keywords if kw.lower() in content_to_check]
MatchedKeywords(kws, content_to_check) ==
    SelectSeq(kws, LAMBDA kw : Contains(Lower(kw), content_to_check))

(***************************************************************************)
(* fetch_rss_news of both scripts                                          *)
(***************************************************************************)
\* KEYWORDS: "파이프트리", "파머스마인드", "paiptree", "farmersmind", one letter each
KEYWORDS == << <<"k">>, <<"m">>, <<"p">>, <<"f">> >>

RecencyDays == 7

FeedImageUrl     == <<"f", "i">>    \* the image URL a feed entry carries
PlaceholderImage == <<"v", "p">>    \* https://via.placeholder.com/300x200/...

\* what an access that raises (AttributeError, KeyError) stands for
Raised == [raised |-> TRUE, url |-> <<>>]
Url(u) == [raised |-> FALSE, url |-> u]

\* enhanced: feed.feed.get('title', 'Unknown')
FeedTitle == <<"T">>

\* rss_scraper step 1: media_thumbnail[0].get('url', ''), else the first
\* enclosure that has a type starting with image/ (its href)
FeedThumbnail(entry) ==
    CASE entry.media = "thumb"       -> Url(FeedImageUrl)
      [] entry.media = "thumb_nourl" -> Url(<<>>)
      [] entry.media = "enc_image"   -> Url(FeedImageUrl)
      [] entry.media = "enc_notype"  -> Url(<<>>)
      [] entry.media = "enc_nohref"  -> Raised
      [] OTHER                       -> Url(<<>>)

\* enhanced step 1: media_thumbnail[0]['url'], else enc.type.startswith(...)
FeedThumbnailEnhanced(entry) ==
    CASE entry.media = "thumb"       -> Url(FeedImageUrl)
      [] entry.media = "thumb_nourl" -> Raised
      [] entry.media = "enc_image"   -> Url(FeedImageUrl)
      [] entry.media = "enc_notype"  -> Raised
      [] entry.media = "enc_nohref"  -> Raised
      [] OTHER                       -> Url(<<>>)

\* get_default_image_by_keywords: the image of the first matched keyword that
\* has one, else ""
get_default_image_by_keywords(matched_keywords) ==
    LET known == {i \in 1..Len(matched_keywords) :
                      \E k \in 1..Len(KEYWORDS) : Lower(matched_keywords[i]) = KEYWORDS[k]}
    IN  IF known = {} THEN <<>>
        ELSE <<"d">> \o Lower(matched_keywords[SetMin(known)])

IsPrefixOf(p, s) == Len(p) <= Len(s) /\ SubSeq(s, 1, Len(p)) = p

\* "data:image/jpeg;base64," followed by the bytes of the optimised image,
\* which stand for the image they were made from
DataPrefix == <<"d", "a", "t", "a", ":">>
DataUrl(image_url) == DataPrefix \o image_url

\* the session of requests has connection adapters for http:// and https://
\* only: a get of a data: URL raises
IsInlineData(image_url) == IsPrefixOf(DataPrefix, image_url)

\* ArticleImageScraper.extract_first_image / extract_largest_image (both
\* callers leave return_optimized at True) as its callers see it: None ("")
\* when the page cannot be fetched or holds no candidate, the data URL that
\* _optimize_image made of the image found, or the image's URL when
\* _optimize_image returned None
ExtractedImage(entry) ==
    IF entry.pipeline.scrape # "ok" \/ entry.page_image = <<>> THEN <<>>
    ELSE IF entry.pipeline.inline = "data_url" THEN DataUrl(entry.page_image)
    ELSE entry.page_image

\* ImageProcessor.download_and_optimize: a dict ("ok") or None; whatever the
\* get raises is caught and None returned
download_and_optimize(image_url, outcome) ==
    IF IsInlineData(image_url) THEN "none" ELSE outcome

\* GoogleDriveUploader.upload_image: the public link of the uploaded file
DriveUrl(image_url) == <<"g">> \o image_url

\* the try block of process_article_image: raised, or the value it returns
ProcessImageBody(entry) ==
    LET p == entry.pipeline
    IN  IF p.scrape = "raises" THEN Raised
        ELSE IF ExtractedImage(entry) = <<>> THEN Url(<<>>)
        ELSE IF p.optimize = "raises" THEN Raised
        ELSE IF download_and_optimize(ExtractedImage(entry), p.optimize) = "none"
             THEN Url(<<>>)
        ELSE IF p.drive = "raises" THEN Raised
        ELSE IF p.folder = "none" \/ p.upload = "none" THEN Url(<<>>)
        ELSE Url(DriveUrl(ExtractedImage(entry)))

\* process_article_image: `except Exception: return None`
process_article_image(entry) ==
    IF ProcessImageBody(entry).raised THEN <<>> ELSE ProcessImageBody(entry).url

\* a step 3 that leaves the thumbnail as it is
ThumbnailAsIs(url) == url

\* rss_scraper step 3: the fixed placeholder when there is still no image
ThumbnailOrPlaceholder(url) == IF url = <<>> THEN PlaceholderImage ELSE url

\* what the loop body does with one entry: no keyword, an exception, or a
\* record (looked_up: the article page was fetched for an image)
Skip == [kind |-> "skip"]
Raise == [kind |-> "raise"]
Record(item, looked_up) == [kind |-> "record", item |-> item, looked_up |-> looked_up]

\* rss_scraper: the body of the entry loop of fetch_rss_news
ProcessEntry(entry, kws, now) ==
    LET st == extract_source_from_title(entry.title)
        raw_description == EntryDescription(entry)
        content_to_check == Lower(st.clean_title \o <<" ">> \o raw_description)
        matched_keywords == MatchedKeywords(kws, content_to_check)
        feed_thumb == FeedThumbnail(entry)
        from_article == IF feed_thumb.url = <<>> /\ entry.link # <<>>
                        THEN process_article_image(entry) ELSE feed_thumb.url
        thumbnail_url == ThumbnailOrPlaceholder(from_article)
    IN  IF matched_keywords = <<>> THEN Skip
        ELSE IF feed_thumb.raised THEN Raise
        ELSE Record([title         |-> IF st.clean_title # <<>>
                                       THEN Prefix(st.clean_title, TitleLimit)
                                       ELSE TitlePlaceholder,
                     description   |-> clean_description(raw_description),
                     pub_datetime  |-> extract_publish_date(entry, now),
                     thumbnail_url |-> thumbnail_url,
                     category      |-> CategoryOf(entry.title, entry.link),
                     original_url  |-> entry.link],
                    feed_thumb.url = <<>> /\ entry.link # <<>>)

\* enhanced: the body of the entry loop of fetch_rss_news
ProcessEntryEnhanced(entry, kws, now) ==
    LET description == EntryDescription(entry)
        content_to_check == Lower(entry.title \o <<" ">> \o description)
        matched_keywords == MatchedKeywords(kws, content_to_check)
        feed_thumb == FeedThumbnailEnhanced(entry)
        from_article == IF feed_thumb.url = <<>> /\ entry.link # <<>>
                        THEN ExtractedImage(entry) ELSE feed_thumb.url
        thumbnail_url == IF from_article = <<>>
                         THEN get_default_image_by_keywords(matched_keywords)
                         ELSE from_article
    IN  IF matched_keywords = <<>> THEN Skip
        ELSE IF entry.published_parsed = BadDate \/ feed_thumb.raised THEN Raise
        ELSE Record([title         |-> Prefix(entry.title, TitleLimit),
                     description   |-> Prefix(description, DescriptionLimit),
                     pub_datetime  |-> IF entry.published_parsed = NoDate
                                       THEN now ELSE entry.published_parsed,
                     thumbnail_url |-> thumbnail_url,
                     category      |-> FeedTitle,
                     original_url  |-> entry.link],
                    feed_thumb.url = <<>> /\ entry.link # <<>>)

\* the records of the outcomes, in order
RECURSIVE RecordsOf(_, _)
RecordsOf(outcomes, i) ==
    IF i > Len(outcomes) THEN <<>>
    ELSE IF outcomes[i].kind = "record"
         THEN <<outcomes[i].item>> \o RecordsOf(outcomes, i + 1)
         ELSE RecordsOf(outcomes, i + 1)

\* the article pages looked up before the first exception
LookupsOf(outcomes) ==
    Cardinality({i \in 1..Len(outcomes) :
                    /\ outcomes[i].kind = "record"
                    /\ outcomes[i].looked_up
                    /\ \A j \in 1..(i - 1) : outcomes[j].kind # "raise"})

\* the try block of fetch_rss_news: it raises as soon as anything inside does;
\* otherwise it returns the records
TryBody(raised_before, outcomes) ==
    IF raised_before THEN [raised |-> TRUE, items |-> <<>>, lookups |-> 0]
    ELSE IF \E i \in 1..Len(outcomes) : outcomes[i].kind = "raise"
    THEN [raised |-> TRUE, items |-> <<>>, lookups |-> LookupsOf(outcomes)]
    ELSE [raised |-> FALSE, items |-> RecordsOf(outcomes, 1), lookups |-> LookupsOf(outcomes)]

\* a fetch_rss_news without its except clause
NoExcept(body) == body

\* `except Exception as e: ... return []`
ExceptReturnEmpty(body) ==
    IF body.raised THEN [raised |-> FALSE, items |-> <<>>, lookups |-> body.lookups]
    ELSE body

\* the try block of rss_scraper.fetch_rss_news
FetchBody(fd, kws, initial, now) ==
    LET \* `pub_datetime >= seven_days_ago` raises TypeError on an aware datetime
        filter_raises == /\ ~initial
                         /\ \E i \in 1..Len(fd.entries) :
                                IsAware(extract_publish_date(fd.entries[i], now))
        recent == IF initial THEN fd.entries
                  ELSE SelectSeq(fd.entries,
                           LAMBDA e : extract_publish_date(e, now) >= now - RecencyDays)
    IN  TryBody(fd.parse_raises \/ filter_raises,
                [i \in 1..Len(recent) |-> ProcessEntry(recent[i], kws, now)])

\* the try block of rss_scraper_enhanced.fetch_rss_news
FetchBodyEnhanced(fd, kws, initial, now) ==
    LET filter_raises == /\ ~initial
                         /\ \E i \in 1..Len(fd.entries) :
                                fd.entries[i].published_parsed = BadDate
        recent == IF initial THEN fd.entries
                  ELSE SelectSeq(fd.entries,
                           LAMBDA e : \/ e.published_parsed = NoDate
                                      \/ e.published_parsed >= now - RecencyDays)
    IN  TryBody(fd.parse_raises \/ filter_raises,
                [i \in 1..Len(recent) |-> ProcessEntryEnhanced(recent[i], kws, now)])

\* rss_scraper.fetch_rss_news
fetch_rss_news(fd, kws, initial, now) ==
    ExceptReturnEmpty(FetchBody(fd, kws, initial, now))

\* rss_scraper_enhanced.fetch_rss_news
fetch_rss_news_enhanced(fd, kws, initial, now) ==
    ExceptReturnEmpty(FetchBodyEnhanced(fd, kws, initial, now))

\* fetch_rss_news of the given script
FetchBy(scr, fd, kws, initial, now) ==
    IF scr = "rss_scraper" THEN fetch_rss_news(fd, kws, initial, now)
    ELSE fetch_rss_news_enhanced(fd, kws, initial, now)

\* whether the try block of the given script's fetch_rss_news raised
FetchFails(scr, fd, kws, initial, now) ==
    IF scr = "rss_scraper" THEN FetchBody(fd, kws, initial, now).raised
    ELSE FetchBodyEnhanced(fd, kws, initial, now).raised

(***************************************************************************)
(* Configuration, ids and the worksheet                                    *)
(***************************************************************************)
\* a get_config that does not look at GOOGLE_SHEETS_ID
ConfigOkWithoutSheetsId(creds, sid) == creds = "valid"

\* get_config returns (instead of calling sys.exit(1)): the credentials are
\* set and parse as JSON, and the sheet id is set
ConfigOk(creds, sid) == creds = "valid" /\ sid = "set"

TicksPerSecond == 2
SleepAfterAppend == 6       \* rss_scraper: time.sleep(3.0) after a successful append_row
SleepBetweenNews == 1       \* enhanced: time.sleep(0.5) after each add_news_to_sheet

\* int(time.time())
Seconds(t) == t \div TicksPerSecond

DigitChars == <<"0", "1", "2", "3", "4", "5", "6", "7", "8", "9">>

RECURSIVE DecimalDigits(_)
\* the decimal digits of n >= 0
DecimalDigits(n) ==
    IF n < 10 THEN <<DigitChars[n + 1]>>
    ELSE Append(DecimalDigits(n \div 10), DigitChars[(n % 10) + 1])

\* f"{n:0{width}d}"
ZeroPadded(n, width) ==
    LET d == DecimalDigits(n)
    IN  IF Len(d) >= width THEN d ELSE [i \in 1..(width - Len(d)) |-> "0"] \o d

RECURSIVE DigitsValue(_)
\* int(s) for a string of digits
DigitsValue(d) ==
    IF d = <<>> THEN 0
    ELSE 10 * DigitsValue(SubSeq(d, 1, Len(d) - 1))
         + (CHOOSE v \in 0..9 : DigitChars[v + 1] = d[Len(d)])

\* s.lstrip('0')
LStripZeros(d) ==
    LET nz == {i \in 1..Len(d) : d[i] # "0"}
    IN  IF nz = {} THEN <<>> ELSE SubSeq(d, SetMin(nz), Len(d))

SimpleIdModulus == 100000
SimpleIdWidth == 5
FallbackIdModulus == 10000
FallbackIdWidth == 4
SequentialIdWidth == 3

\* rss_scraper.generate_simple_id
generate_simple_id(t) == ZeroPadded(Seconds(t) % SimpleIdModulus, SimpleIdWidth)

\* the numbers generate_sequential_id reads from the id column; an id that is
\* all zeros makes int('') raise and is skipped
RowNumbers(rows) ==
    {DigitsValue(LStripZeros(rows[i].id)) :
        i \in {j \in 1..Len(rows) : LStripZeros(rows[j].id) # <<>>}}

\* enhanced.generate_sequential_id; read_ok = get_all_records did not raise
generate_sequential_id(rows, read_ok, t) ==
    IF ~read_ok THEN ZeroPadded(Seconds(t) % FallbackIdModulus, FallbackIdWidth)
    ELSE IF rows = <<>> THEN <<"0", "0", "1">>
    ELSE ZeroPadded(SetMax(RowNumbers(rows) \cup {0}) + 1, SequentialIdWidth)

\* enhanced.is_duplicate_news; read_ok = get_all_records did not raise
is_duplicate_news(rows, original_url, read_ok) ==
    read_ok /\ \E i \in 1..Len(rows) : rows[i].original_url = original_url

\* an append that is skipped when a row with the URL is already there
AppendRowUnlessPresent(rows, row) ==
    IF \E i \in 1..Len(rows) : rows[i].original_url = row.original_url
    THEN rows ELSE Append(rows, row)

\* worksheet.append_row(row_data)
AppendRow(rows, row) == Append(rows, row)

\* the row append_row writes for a record
Row(news_id, news_item) ==
    [id |-> news_id, original_url |-> news_item.original_url,
     pub_datetime |-> news_item.pub_datetime]

\* comparing a timezone-aware datetime with a naive one raises TypeError, and
\* a sort of a list that holds both kinds makes such a comparison
SortRaises(items) ==
    \E i, j \in 1..Len(items) :
        IsAware(items[i].pub_datetime) # IsAware(items[j].pub_datetime)

\* a sort that leaves the list as it is
Unsorted(items) == items

\* list.sort(key=lambda x: x.get('pub_datetime', ...)): stable, oldest first
InsertByDate(sorted, x) ==
    LET k == Cardinality({i \in 1..Len(sorted) : sorted[i].pub_datetime <= x.pub_datetime})
    IN  SubSeq(sorted, 1, k) \o <<x>> \o SubSeq(sorted, k + 1, Len(sorted))

RECURSIVE SortByDate(_)
SortByDate(items) ==
    IF items = <<>> THEN <<>>
    ELSE InsertByDate(SortByDate(SubSeq(items, 1, Len(items) - 1)), items[Len(items)])

(***************************************************************************)
(* Inputs                                                                  *)
(***************************************************************************)
RECURSIVE ListsUpTo(_, _)
\* all sequences over S of length at most n
ListsUpTo(S, n) ==
    IF n = 0 THEN {<<>>}
    ELSE LET shorter == ListsUpTo(S, n - 1)
         IN  shorter \cup {Append(l, x) : l \in {m \in shorter : Len(m) = n - 1}, x \in S}

\* n copies of the character c
Repeat(c, n) == [i \in 1..n |-> c]

\* titles for the deduplicator: TitleA and TitleB are similar in one argument
\* order only, TitleC differs from TitleA in case and punctuation only
TitleA == <<"a", "a", "a", "a", "a", "b", "a">>
TitleB == <<"a", "a", "b", "a", "a", "a", "b">>
TitleC == <<"A", "a", "a", "-", "a", "a", "b", "a", " ">>
TitleD == <<"x", "y">>
DedupTitles == {TitleA, TitleB, TitleC, TitleD}

UrlU  == <<"u">>
UrlUq == <<"u", "?", "x">>
UrlV  == <<"v", "?", "x">>
DedupUrls == {UrlU, UrlUq, UrlV}

DedupRecords == [title : DedupTitles, original_url : DedupUrls]

OldDate    == Now - RecencyDays - 1
RecentDate == Now - 1

TitlePS   == <<"P", " ", "-", " ", "s">>        \* keyword in the headline, source "s"
TitleXP   == <<"x", " ", "-", " ", "p">>        \* keyword only in the source suffix
TitleXY   == <<"x", "y">>                       \* no keyword
TitleLong == Repeat("p", TitleLimit + 1)

DescOk     == <<"p", " ", "y", " ", "p", " ", "y", " ", "p", " ", "y", " ", "p">>
DescY      == <<"y">>
DescTagged == <<"<", "b", ">", "p", "<", "/", "b", ">"," ", "y", " ", "p", " ", "y",
                " ", "p", " ", "y">>
DescEntity == <<"&", "l", "t", ";", "b", "&", "g", "t", ";", "p", " ", "y", " ", "p",
                " ", "y", " ", "p">>
DescLong   == Repeat("p", DescriptionLimit + 1)

LinkQ == <<"u", "?", "x">>
LinkV == <<"v">>
ArticleImage == <<"a", "i">>     \* the image the scraper finds on the article page

\* every stage of the article image pipeline succeeds
PipelineOk == [scrape |-> "ok", inline |-> "none", optimize |-> "ok", drive |-> "ok",
               folder |-> "ok", upload |-> "ok"]

BaseEntry ==
    [title |-> TitlePS, description |-> DescOk, summary |-> <<>>, link |-> LinkQ,
     published_parsed |-> RecentDate, updated_parsed |-> NoDate,
     published |-> NoDate, updated |-> NoDate,
     media |-> "none", page_image |-> <<>>, pipeline |-> PipelineOk]

\* the text cases: headline and description with and without a keyword,
\* over-long fields, empty fields, markup
TextEntries ==
    {[BaseEntry EXCEPT !.description = DescY],
     [BaseEntry EXCEPT !.title = TitleXP, !.description = DescY],
     [BaseEntry EXCEPT !.title = TitleXY, !.description = DescY, !.link = LinkV],
     [BaseEntry EXCEPT !.title = TitleLong, !.description = DescLong],
     [BaseEntry EXCEPT !.title = <<>>, !.description = <<>>, !.summary = <<"p">>],
     [BaseEntry EXCEPT !.description = DescTagged, !.media = "thumb"],
     [BaseEntry EXCEPT !.description = DescEntity, !.page_image = ArticleImage]}

\* the image cases: enclosures and thumbnails that lack an attribute
MediaEntries ==
    {[BaseEntry EXCEPT !.media = m] : m \in {"thumb_nourl", "enc_nohref"}}

\* the date cases: old, missing, not convertible
DateEntries ==
    {[BaseEntry EXCEPT !.published_parsed = OldDate],
     [BaseEntry EXCEPT !.published_parsed = NoDate],
     [BaseEntry EXCEPT !.published_parsed = BadDate, !.updated_parsed = OldDate]}

FetchEntries == {BaseEntry} \cup TextEntries \cup MediaEntries \cup DateEntries

KwUpperP == <<"P">>
KwPY     == <<"p", " ", "y">>     \* a two-word keyword
KwQ      == <<"q">>
KeywordLists == {<<KwPY>>, <<KwQ, KwUpperP>>}

ParsedFeed(entries) == [parse_raises |-> FALSE, entries |-> entries]
FeedDown == [parse_raises |-> TRUE, entries |-> <<>>]    \* feedparser.parse raises

Feeds == {ParsedFeed(l) : l \in ListsUpTo(FetchEntries, MaxEntries)} \cup {FeedDown}

\* what the feeds of a run of main may hold
OtherEntry == [BaseEntry EXCEPT !.title = TitleXY, !.link = LinkV,
                                !.published_parsed = RecentDate - 1]
BrokenEntry == [BaseEntry EXCEPT !.media = "enc_nohref"]
\* an entry whose only date is a string with a UTC offset
ZonedEntry == [OtherEntry EXCEPT !.published_parsed = NoDate,
                                !.published = Aware(RecentDate - 2)]
MainFeeds == {FeedDown, ParsedFeed(<<BaseEntry>>), ParsedFeed(<<OtherEntry>>),
              ParsedFeed(<<OtherEntry, BrokenEntry>>), ParsedFeed(<<ZonedEntry>>)}

\* time between the end of one run and the start of the next, in ticks
RunGaps == {0, (SimpleIdModulus - 3) * TicksPerSecond}

(***************************************************************************)
(* The three groups of variables at rest                                   *)
(***************************************************************************)
DedupIdle ==
    /\ all_news_items = <<>>
    /\ unique_news = <<>>
    /\ unique_again = <<>>
    /\ dpc = "idle"

FetchIdle ==
    /\ feed = ParsedFeed(<<>>)
    /\ keywords = KEYWORDS
    /\ news_items = <<>>
    /\ fpc = "idle"

\* no ArticleImageScraper method has been called
ScraperIdle == [pc |-> "idle"]
UploaderIdle == [pc |-> "idle"]

\* _fetch_with_retry has not been called
RetryIdle == [pc |-> "idle", max_retries |-> 0, attempt |-> 0, trace |-> <<>>,
              result |-> "none"]

\* append_at: the clock at each worksheet.append_row call of the run
\* unread: rows of the run appended after a duplicate check whose
\* get_all_records raised
NoOps == [sheets |-> 0, feed |-> 0, article |-> 0, append |-> 0, append_at |-> <<>>,
          unread |-> 0]

MainIdle ==
    /\ google_creds = "valid"
    /\ sheets_id = "set"
    /\ pc = "idle"
    /\ runs = 0
    /\ clock = 0
    /\ ops = NoOps
    /\ fetched = <<>>
    /\ next_i = 1
    /\ total_collected = 0
    /\ exit_code = "none"
    /\ uploader = UploaderIdle
    /\ worksheet = <<>>
    /\ racer = <<>>
    /\ retry = RetryIdle
    /\ scraper = ScraperIdle

(***************************************************************************)
(* deduplicate_news_comprehensive applied to bounded record lists          *)
(***************************************************************************)
DedupInit ==
    /\ all_news_items \in ListsUpTo(DedupRecords, MaxItems)
    /\ unique_news = <<>>
    /\ unique_again = <<>>
    /\ dpc = "input"
    /\ script = "rss_scraper"
    /\ initial_mode = FALSE
    /\ FetchIdle
    /\ MainIdle

\* main: unique_news = deduplicate_news_comprehensive(all_news_items)
Deduplicate ==
    /\ dpc = "input"
    /\ unique_news' = deduplicate_news_comprehensive(all_news_items)
    /\ dpc' = "deduped"
    /\ UNCHANGED <<all_news_items, unique_again, feed, keywords, news_items, fpc>>
    /\ UNCHANGED <<script, initial_mode>>
    /\ UNCHANGED mainVars

\* the deduplicator run on its own output
DeduplicateAgain ==
    /\ dpc = "deduped"
    /\ unique_again' = deduplicate_news_comprehensive(unique_news)
    /\ dpc' = "again"
    /\ UNCHANGED <<all_news_items, unique_news, feed, keywords, news_items, fpc>>
    /\ UNCHANGED <<script, initial_mode>>
    /\ UNCHANGED mainVars

DedupNext == Deduplicate \/ DeduplicateAgain

SpecDedup == DedupInit /\ [][DedupNext]_vars

(***************************************************************************)
(* fetch_rss_news applied to bounded feeds                                 *)
(***************************************************************************)
FetchInit ==
    /\ script \in {"rss_scraper", "rss_scraper_enhanced"}
    /\ initial_mode \in BOOLEAN
    /\ feed \in Feeds
    /\ keywords \in KeywordLists
    /\ news_items = <<>>
    /\ fpc = "feed"
    /\ DedupIdle
    /\ MainIdle

\* main: news_items = fetch_rss_news(rss_url, KEYWORDS, ..., initial_mode)
FetchFeed ==
    /\ fpc = "feed"
    /\ news_items' = FetchBy(script, feed, keywords, initial_mode, Now).items
    /\ fpc' = "fetched"
    /\ UNCHANGED <<script, feed, keywords, initial_mode>>
    /\ UNCHANGED dedupVars
    /\ UNCHANGED mainVars

FetchNext == FetchFeed

SpecFetch == FetchInit /\ [][FetchNext]_vars

(***************************************************************************)
(* fetch_rss_news over entries whose article image pipeline may fail       *)
(***************************************************************************)
Pipelines ==
    [scrape : {"ok", "page_fetch_failed", "no_candidate", "raises"},
     inline : {"data_url", "none"},
     optimize : {"ok", "none", "raises"},
     drive : {"ok", "raises"},
     folder : {"ok", "none"},
     upload : {"ok", "none"}]

\* keyword-matching recent entries: with and without a feed image, a link, an
\* image on the article page, and with every combination of stage outcomes
ImageEntries ==
    {[BaseEntry EXCEPT !.media = m, !.link = l, !.page_image = pi, !.pipeline = p] :
        m \in {"none", "thumb", "thumb_nourl"}, l \in {LinkQ, <<>>},
        pi \in {<<>>, ArticleImage}, p \in Pipelines}

ImageInit ==
    /\ script \in {"rss_scraper", "rss_scraper_enhanced"}
    /\ initial_mode \in BOOLEAN
    /\ \E e \in ImageEntries : feed \in {ParsedFeed(<<e>>), ParsedFeed(<<BaseEntry, e>>)}
    /\ keywords = KEYWORDS
    /\ news_items = <<>>
    /\ fpc = "feed"
    /\ DedupIdle
    /\ MainIdle

SpecImage == ImageInit /\ [][FetchNext]_vars

(***************************************************************************)
(* fetch_rss_news over entries with every kind of date                     *)
(***************************************************************************)
WindowStart == Now - RecencyDays

\* keyword-matching entries whose four date fields are absent, broken, old,
\* on the edge of the window, recent, or (strings only) timezone-aware
DatedEntries ==
    {[BaseEntry EXCEPT !.published_parsed = pp, !.updated_parsed = up,
                       !.published = ps, !.updated = us] :
        pp \in {NoDate, BadDate, OldDate, WindowStart, RecentDate},
        up \in {NoDate, BadDate, OldDate, RecentDate},
        ps \in {NoDate, BadDate, OldDate, RecentDate, Aware(OldDate), Aware(RecentDate)},
        us \in {NoDate, BadDate, RecentDate}}

\* an entry without a keyword, dated inside the window
UnmatchedEntry == [BaseEntry EXCEPT !.title = TitleXY, !.description = DescY]

DatesInit ==
    /\ script \in {"rss_scraper", "rss_scraper_enhanced"}
    /\ initial_mode \in BOOLEAN
    /\ \E e \in DatedEntries :
          feed \in {ParsedFeed(<<e>>), ParsedFeed(<<BaseEntry, e>>),
                    ParsedFeed(<<e, UnmatchedEntry>>)}
    /\ keywords = <<KwUpperP>>
    /\ news_items = <<>>
    /\ fpc = "feed"
    /\ DedupIdle
    /\ MainIdle

SpecDates == DatesInit /\ [][FetchNext]_vars

(***************************************************************************)
(* fetch_rss_news over titles that end in a source                         *)
(***************************************************************************)
WithSource(headline, source) == headline \o SourceSeparator \o source

SourceTitles ==
    {WithSource(<<"P">>, s) :
        s \in {<<"s">>, <<"a", "a">>, <<"a", "a">> \o SuffixNews, <<"a">> \o SuffixNews,
               SuffixNews, <<"a", "a", ".", ".">>, <<"a", "a", " ">> \o SuffixPaper,
               <<"a", "a">> \o SuffixDaily \o SuffixNews, UnknownSource,
               <<"a">> \o SourceSeparator \o <<"b", "b">>}}
    \cup {WithSource(<<>>, <<"a", "a">>), WithSource(TitleLong, <<"a", "a">>), <<"P">>}

LinkHost == <<"h", ":", "/", "/", "w", "w", "w", ".", "d", ".", "c", "/", "a", "?", "x">>

SourceEntries ==
    {[BaseEntry EXCEPT !.title = t, !.link = l] : t \in SourceTitles, l \in {LinkQ, LinkHost}}

SourceInit ==
    /\ script \in {"rss_scraper", "rss_scraper_enhanced"}
    /\ initial_mode \in BOOLEAN
    /\ \E e \in SourceEntries : feed \in {ParsedFeed(<<e>>), ParsedFeed(<<BaseEntry, e>>)}
    /\ keywords = <<KwUpperP>>
    /\ news_items = <<>>
    /\ fpc = "feed"
    /\ DedupIdle
    /\ MainIdle

SpecSource == SourceInit /\ [][FetchNext]_vars

(***************************************************************************)
(* web_scraper.py: which image URLs are candidates                         *)
(***************************************************************************)
\* urlparse(url).scheme for a scheme of letters, lower-cased; "" without one
UrlScheme(url) ==
    LET colons == {i \in 2..Len(url) : url[i] = ":" /\ \A j \in 1..(i - 1) : url[j] \in Letters}
    IN  IF colons = {} THEN <<>> ELSE Lower(SubSeq(url, 1, SetMin(colons) - 1))

SchemeHttp  == <<"h", "t", "t", "p">>
SchemeHttps == <<"h", "t", "t", "p", "s">>

\* _is_valid_image_url: a relative URL, or an absolute one over http(s)
is_valid_image_url(url) ==
    /\ url # <<>>
    /\ \/ url[1] = "/"
       \/ UrlScheme(url) \in {SchemeHttp, SchemeHttps}

exclude_keywords ==
    {<<"l", "o", "g", "o">>,
     <<"i", "c", "o", "n">>,
     <<"f", "a", "v", "i", "c", "o", "n">>,
     <<"s", "y", "m", "b", "o", "l">>,
     <<"b", "r", "a", "n", "d">>,
     <<"h", "e", "a", "d", "e", "r">>,
     <<"f", "o", "o", "t", "e", "r">>,
     <<"n", "a", "v">>,
     <<"m", "e", "n", "u">>,
     <<"s", "i", "d", "e", "b", "a", "r">>,
     <<"b", "a", "n", "n", "e", "r">>,
     <<"a", "d">>,
     <<"a", "d", "v", "e", "r", "t", "i", "s", "e", "m", "e", "n", "t">>,
     <<"s", "p", "o", "n", "s", "o", "r">>,
     <<"s", "o", "c", "i", "a", "l">>,
     <<"s", "h", "a", "r", "e">>,
     <<"f", "a", "c", "e", "b", "o", "o", "k">>,
     <<"t", "w", "i", "t", "t", "e", "r">>,
     <<"i", "n", "s", "t", "a", "g", "r", "a", "m">>,
     <<"a", "v", "a", "t", "a", "r">>,
     <<"p", "r", "o", "f", "i", "l", "e">>,
     <<"a", "u", "t", "h", "o", "r">>,
     <<"w", "r", "i", "t", "e", "r">>,
     <<"r", "e", "p", "o", "r", "t", "e", "r">>,
     <<"b", "u", "t", "t", "o", "n">>,
     <<"a", "r", "r", "o", "w">>,
     <<"l", "o", "a", "d", "i", "n", "g">>,
     <<"s", "p", "i", "n", "n", "e", "r">>,
     <<"p", "l", "a", "c", "e", "h", "o", "l", "d", "e", "r">>,
     <<"d", "e", "f", "a", "u", "l", "t">>,
     <<"b", "l", "a", "n", "k">>,
     <<"t", "h", "u", "m", "b">>,
     <<"t", "h", "u", "m", "b", "n", "a", "i", "l", "_", "d", "e", "f", "a", "u", "l", "t">>,
     <<"n", "o", "-", "i", "m", "a", "g", "e">>,
     <<"n", "o", "i", "m", "a", "g", "e">>,
     <<"g", "o", "o", "g", "l", "e">>,
     <<"y", "o", "u", "t", "u", "b", "e">>,
     <<"n", "a", "v", "e", "r">>,
     <<"k", "a", "k", "a", "o">>,
     <<"d", "a", "u", "m">>,
     <<"1", "x", "1">>,
     <<"p", "i", "x", "e", "l">>,
     <<"t", "r", "a", "c", "k", "i", "n", "g">>,
     <<"a", "n", "a", "l", "y", "t", "i", "c", "s">>,
     <<"p", "r", "i", "n", "t">>,
     <<"e", "m", "a", "i", "l">>,
     <<"b", "o", "o", "k", "m", "a", "r", "k">>,
     <<"s", "u", "b", "s", "c", "r", "i", "b", "e">>}

\* a keyword test that finds nothing
HasNoExcludeKeyword(url) == FALSE

\* `keyword in url_lower` for some keyword
HasExcludeKeyword(url) == \E keyword \in exclude_keywords : Contains(keyword, Lower(url))

\* the end of the run of digits that starts at i
DigitRunEnd(s, i) ==
    SetMax({j \in i..Len(s) : \A k \in i..j : s[k] \in Digits})

\* \b before the word character at i, after the word character at j
BoundaryBefore(s, i) == i = 1 \/ ~IsWord(s[i - 1])
BoundaryAfter(s, j) == j = Len(s) \/ ~IsWord(s[j + 1])

NoSize == [found |-> FALSE, width |-> <<>>, height |-> <<>>]

\* the match of \b(\d+)x(\d+)\b that starts at i, if there is one
SizeAt(s, i) ==
    IF ~(s[i] \in Digits /\ BoundaryBefore(s, i)) THEN NoSize
    ELSE LET we == DigitRunEnd(s, i)
         IN  IF ~(we + 2 <= Len(s) /\ s[we + 1] = "x" /\ s[we + 2] \in Digits) THEN NoSize
             ELSE LET he == DigitRunEnd(s, we + 2)
                  IN  IF ~BoundaryAfter(s, he) THEN NoSize
                      ELSE [found |-> TRUE, width |-> SubSeq(s, i, we),
                            height |-> SubSeq(s, we + 2, he)]

SmallDigits == 2
MinWidth == 200
MinHeight == 150

\* re.search(r'\b\d{1,2}x\d{1,2}\b', url)
MatchesSmallSize(url) ==
    \E i \in 1..Len(url) :
        /\ SizeAt(url, i).found
        /\ Len(SizeAt(url, i).width) <= SmallDigits
        /\ Len(SizeAt(url, i).height) <= SmallDigits

\* re.search(r'\b[1-9]\dx[1-9]\d\b', url)
MatchesTwoDigitSize(url) ==
    \E i \in 1..Len(url) :
        /\ SizeAt(url, i).found
        /\ Len(SizeAt(url, i).width) = SmallDigits /\ SizeAt(url, i).width[1] # "0"
        /\ Len(SizeAt(url, i).height) = SmallDigits /\ SizeAt(url, i).height[1] # "0"

\* re.search(r'\b(\d+)x(\d+)\b', url): the leftmost match
FirstSize(url) ==
    LET at == {i \in 1..Len(url) : SizeAt(url, i).found}
    IN  IF at = {} THEN NoSize ELSE SizeAt(url, SetMin(at))

\* the size loop of _is_excluded_image
ExcludedBySize(url) ==
    /\ MatchesSmallSize(url) \/ MatchesTwoDigitSize(url)
    /\ FirstSize(url).found
    /\ \/ DigitsValue(FirstSize(url).width) < MinWidth
       \/ DigitsValue(FirstSize(url).height) < MinHeight

\* _is_excluded_image
is_excluded_image(url) ==
    \/ url = <<>>
    \/ HasExcludeKeyword(url)
    \/ ExcludedBySize(url)

(***************************************************************************)
(* _is_excluded_image applied to URLs that encode a size                   *)
(***************************************************************************)
SizeSeparators == {"/", "-", "_"}
EncodedWidths  == {5, 50, 99, 100, 150, 199, 200, 500}
EncodedHeights == {5, 50, 99, 100, 149, 150, 400}

\* /i<sep><W>x<H>.jpg
SizeUrl(sep, w, h) ==
    <<"/", "i", sep>> \o DecimalDigits(w) \o <<"x">> \o DecimalDigits(h)
        \o <<".", "j", "p", "g">>

ExcludeInit ==
    /\ script \in {"rss_scraper", "rss_scraper_enhanced"}
    /\ initial_mode = FALSE
    /\ DedupIdle
    /\ FetchIdle
    /\ google_creds = "valid"
    /\ sheets_id = "set"
    /\ pc = "idle"
    /\ runs = 0
    /\ clock = 0
    /\ ops = NoOps
    /\ fetched = <<>>
    /\ next_i = 1
    /\ total_collected = 0
    /\ exit_code = "none"
    /\ uploader = UploaderIdle
    /\ worksheet = <<>>
    /\ racer = <<>>
    /\ retry = RetryIdle
    /\ \E sep \in SizeSeparators, w \in EncodedWidths, h \in EncodedHeights :
          scraper = [pc |-> "url", url |-> SizeUrl(sep, w, h), width |-> w, height |-> h]

scraperRest == <<all_news_items, unique_news, unique_again, dpc, script, feed, keywords,
                 initial_mode, news_items, fpc, google_creds, sheets_id, pc, runs, clock,
                 ops, fetched, next_i, total_collected, exit_code, worksheet, racer, retry,
                 uploader>>

\* self._is_excluded_image(url)
IsExcludedImage ==
    /\ scraper.pc = "url"
    /\ scraper' = [pc |-> "checked", url |-> scraper.url, width |-> scraper.width,
                   height |-> scraper.height, excluded |-> is_excluded_image(scraper.url)]
    /\ UNCHANGED scraperRest

ExcludeNext == IsExcludedImage

SpecExclude == ExcludeInit /\ [][ExcludeNext]_vars

(***************************************************************************)
(* web_scraper.py: ArticleImageScraper.extract_largest_image               *)
(***************************************************************************)
ArticleOrigin == <<"h", "t", "t", "p", ":", "/", "/", "h">>
ArticleUrl == ArticleOrigin \o <<"/", "a">>

\* urljoin(article_url, src) for the URLs _is_valid_image_url lets through
urljoin(base, src) ==
    IF UrlScheme(src) # <<>> THEN src
    ELSE IF OccursAt(<<"/", "/">>, src, 1) THEN UrlScheme(base) \o <<":">> \o src
    ELSE Slice(base, 1, Len(UrlScheme(base)) + Len(SchemeMark)) \o Netloc(base) \o src

\* an <img>: its attributes and whether a content-area selector matches it
Img(src, data_src, in_article) ==
    [src |-> src, data_src |-> data_src, in_article |-> in_article]

\* img.get('src') or img.get('data-src') (or data-original)
ImgSrc(img) == IF img.src # <<>> THEN img.src ELSE img.data_src

\* a reference that passes both URL tests
IsCandidate(src) == src # <<>> /\ is_valid_image_url(src) /\ ~is_excluded_image(src)

EnoughCandidates == 5
GeneralCap == 10
MeasureCap == 15

\* step 1: og:image
OgCandidates(page) ==
    IF IsCandidate(page.og) THEN {urljoin(ArticleUrl, page.og)} ELSE {}

\* step 2: the images the content-area selectors find
ArticleCandidates(page) ==
    {urljoin(ArticleUrl, ImgSrc(page.imgs[i])) :
        i \in {k \in 1..Len(page.imgs) : /\ page.imgs[k].in_article
                                         /\ IsCandidate(ImgSrc(page.imgs[k]))}}

\* step 3: the first ten <img src=...> of the page, when fewer than five
\* candidates were found so far
GeneralCandidates(page) ==
    LET with_src == SelectSeq(page.imgs, LAMBDA img : img.src # <<>>)
        general_images == Prefix(with_src, GeneralCap)
    IN  IF Cardinality(OgCandidates(page) \cup ArticleCandidates(page)) < EnoughCandidates
        THEN {urljoin(ArticleUrl, general_images[i].src) :
                 i \in {k \in 1..Len(general_images) : IsCandidate(general_images[k].src)}}
        ELSE {}

\* all_image_urls
CollectCandidates(page) ==
    OgCandidates(page) \cup ArticleCandidates(page) \cup GeneralCandidates(page)

RECURSIVE KSubsets(_, _)
\* the subsets of S with k elements
KSubsets(S, k) ==
    IF k = 0 THEN {{}}
    ELSE IF S = {} THEN {}
    ELSE LET x == CHOOSE y \in S : TRUE
         IN  KSubsets(S \ {x}, k) \cup {T \cup {x} : T \in KSubsets(S \ {x}, k - 1)}

\* list(all_image_urls)[:15]: a set has no order of its own, so any 15 of the
\* candidates can be the ones measured
MeasuredChoices(cands) ==
    IF Cardinality(cands) <= MeasureCap THEN {cands}
    ELSE {cands \ D : D \in KSubsets(cands, Cardinality(cands) - MeasureCap)}

\* if width >= 200 and height >= 150
LargeEnough(size) == size.width >= MinWidth /\ size.height >= MinHeight

Unmeasured == [measured |-> FALSE, width |-> 0, height |-> 0]
Measured(w, h) == [measured |-> TRUE, width |-> w, height |-> h]
Area(size) == size.width * size.height

\* image_sizes: the measured candidates that pass the minimum size
ImageSizes(page, measured) ==
    {url \in measured : page.sizes[url].measured /\ LargeEnough(page.sizes[url])}

\* what extract_largest_image can return for a page: None is <<>>
LargestImageResults(page) ==
    IF page.fetch # "ok" THEN {<<>>}
    ELSE IF CollectCandidates(page) = {} THEN {<<>>}
    ELSE UNION {
           LET image_sizes == ImageSizes(page, measured)
               largest == {u \in image_sizes :
                              \A v \in image_sizes : Area(page.sizes[u]) >= Area(page.sizes[v])}
           IN  IF image_sizes = {} THEN {<<>>}
               ELSE {IF page.optimize = "ok" THEN DataUrl(u) ELSE u : u \in largest}
           : measured \in MeasuredChoices(CollectCandidates(page))}

(***************************************************************************)
(* extract_largest_image applied to article pages                          *)
(***************************************************************************)
\* /p01, /p02, ...: content images that measure exactly the minimum size
FillerUrl(k) == <<"/", "p">> \o ZeroPadded(k, 2)
BigUrl == <<"/", "b", "i", "g", ".", "j", "p", "g">>
SmallUrl == <<"/", "s", ".", "j", "p", "g">>
BrokenUrl == <<"/", "u", ".", "j", "p", "g">>
LogoUrls == {<<"/", "l", "o", "g", "o", ".", "p", "n", "g">>,
             ArticleOrigin \o <<"/", "L", "O", "G", "O", ".", "p", "n", "g">>,
             <<"/", "i", "/", "l", "o", "g", "o", "-", "5", "0", "0", "x", "4", "0", "0">>}

\* the sizes a measurement gives for the URLs used here
SizesOf(urls) ==
    [u \in {urljoin(ArticleUrl, v) : v \in urls} |->
        IF u = urljoin(ArticleUrl, BrokenUrl) THEN Unmeasured
        ELSE IF u = urljoin(ArticleUrl, SmallUrl) THEN Measured(100, 100)
        ELSE IF u = urljoin(ArticleUrl, BigUrl) \/ Contains(<<"o", "g", "o">>, Lower(u))
             THEN Measured(500, 400)
        ELSE Measured(MinWidth, MinHeight)]

PageOf(fetch, og, imgs, optimize) ==
    [fetch |-> fetch, og |-> og, imgs |-> imgs, optimize |-> optimize,
     sizes |-> SizesOf({og} \cup {imgs[i].src : i \in 1..Len(imgs)}
                            \cup {imgs[i].data_src : i \in 1..Len(imgs)})]

\* how many minimum-size images a page has: around the thresholds 5 and 15
FillerCounts == {0, 1, EnoughCandidates - 1, EnoughCandidates, MeasureCap - 1, MeasureCap,
                 MaxImages}

\* n content images of the minimum size, and optionally a large one, a small
\* one and one that cannot be measured
SizedPages ==
    {PageOf(fetch, <<>>,
            [k \in 1..n |-> Img(FillerUrl(k), <<>>, TRUE)]
                \o (IF big THEN <<Img(BigUrl, <<>>, TRUE)>> ELSE <<>>)
                \o (IF small THEN <<Img(SmallUrl, <<>>, TRUE)>> ELSE <<>>)
                \o (IF broken THEN <<Img(<<>>, BrokenUrl, TRUE)>> ELSE <<>>),
            optimize) :
        n \in FillerCounts, big \in BOOLEAN, small \in BOOLEAN, broken \in BOOLEAN,
        fetch \in {"ok", "none"}, optimize \in {"ok", "none"}}

\* pages whose only image reference is a logo, reached in each of the three ways
LogoPages ==
    {PageOf("ok", logo, <<>>, optimize) : logo \in LogoUrls, optimize \in {"ok", "none"}}
    \cup {PageOf("ok", <<>>, <<Img(logo, <<>>, in_article)>>, optimize) :
             logo \in LogoUrls, in_article \in BOOLEAN, optimize \in {"ok", "none"}}
    \cup {PageOf("ok", <<>>, <<Img(<<>>, logo, TRUE)>>, optimize) :
             logo \in LogoUrls, optimize \in {"ok", "none"}}

PageInit ==
    /\ script \in {"rss_scraper", "rss_scraper_enhanced"}
    /\ initial_mode = FALSE
    /\ DedupIdle
    /\ FetchIdle
    /\ google_creds = "valid"
    /\ sheets_id = "set"
    /\ pc = "idle"
    /\ runs = 0
    /\ clock = 0
    /\ ops = NoOps
    /\ fetched = <<>>
    /\ next_i = 1
    /\ total_collected = 0
    /\ exit_code = "none"
    /\ uploader = UploaderIdle
    /\ worksheet = <<>>
    /\ racer = <<>>
    /\ retry = RetryIdle
    /\ \E page \in SizedPages \cup LogoPages : scraper = [pc |-> "page", page |-> page]

\* scraper.extract_largest_image(article_url)
ExtractLargestImage ==
    /\ scraper.pc = "page"
    /\ \E result \in LargestImageResults(scraper.page) :
          scraper' = [pc |-> "extracted", page |-> scraper.page, result |-> result]
    /\ UNCHANGED scraperRest

PageNext == ExtractLargestImage

SpecPage == PageInit /\ [][PageNext]_vars

(***************************************************************************)
(* web_scraper.py: ArticleImageScraper._fetch_with_retry                   *)
(***************************************************************************)
\* what one session.get / raise_for_status can do: return, raise on the
\* connection (timeout included), raise on the HTTP status
RequestOutcomes == {"ok", "connection_error", "http_error"}

Get(outcome) == [op |-> "get", outcome |-> outcome, seconds |-> 0]
Sleep(seconds) == [op |-> "sleep", outcome |-> "none", seconds |-> seconds]

\* sleep_time = 2 ** attempt
SleepTime(attempt) == 2 ^ attempt

RetryAgainAlways(attempt, max_retries) == TRUE

\* if attempt < self.max_retries - 1
RetryAgain(attempt, max_retries) == attempt < max_retries - 1

\* the scraper is constructed with some max_retries and the function is called
RetryInit ==
    /\ script \in {"rss_scraper", "rss_scraper_enhanced"}
    /\ initial_mode = FALSE
    /\ DedupIdle
    /\ FetchIdle
    /\ google_creds = "valid"
    /\ sheets_id = "set"
    /\ pc = "idle"
    /\ runs = 0
    /\ clock = 0
    /\ ops = NoOps
    /\ fetched = <<>>
    /\ next_i = 1
    /\ total_collected = 0
    /\ exit_code = "none"
    /\ uploader = UploaderIdle
    /\ worksheet = <<>>
    /\ racer = <<>>
    /\ scraper = ScraperIdle
    /\ \E m \in 0..MaxRetries : retry = [RetryIdle EXCEPT !.pc = "for", !.max_retries = m]

retryRest == <<all_news_items, unique_news, unique_again, dpc, script, feed, keywords,
               initial_mode, news_items, fpc, google_creds, sheets_id, pc, runs, clock,
               ops, fetched, next_i, total_collected, exit_code, worksheet, racer, scraper,
               uploader>>

\* the body of the try: session.get and raise_for_status; return on success
RetryRequest ==
    /\ retry.pc = "for"
    /\ retry.attempt < retry.max_retries
    /\ \E outcome \in RequestOutcomes :
          retry' = [retry EXCEPT
                        !.trace = Append(@, Get(outcome)),
                        !.pc = IF outcome = "ok" THEN "done" ELSE "except",
                        !.result = IF outcome = "ok" THEN "response" ELSE @]
    /\ UNCHANGED retryRest

\* the except clause: sleep and go round again, or return None
RetryExcept ==
    /\ retry.pc = "except"
    /\ retry' = IF RetryAgain(retry.attempt, retry.max_retries)
                THEN [retry EXCEPT !.trace = Append(@, Sleep(SleepTime(retry.attempt))),
                                   !.attempt = @ + 1,
                                   !.pc = "for"]
                ELSE [retry EXCEPT !.pc = "done", !.result = "None"]
    /\ UNCHANGED retryRest

\* the for loop is exhausted: the function ends without a return statement
RetryFallThrough ==
    /\ retry.pc = "for"
    /\ retry.attempt >= retry.max_retries
    /\ retry' = [retry EXCEPT !.pc = "done", !.result = "None"]
    /\ UNCHANGED retryRest

RetryNext == RetryRequest \/ RetryExcept \/ RetryFallThrough

\* every request carries a timeout and the sleeps are finite, so a step that
\* is possible is eventually taken
SpecRetry == RetryInit /\ [][RetryNext]_vars /\ WF_vars(RetryNext)

(***************************************************************************)
(* main: sequential runs against one worksheet                             *)
(***************************************************************************)
Init ==
    /\ script \in {"rss_scraper", "rss_scraper_enhanced"}
    /\ initial_mode = FALSE
    /\ DedupIdle
    /\ FetchIdle
    /\ MainIdle

studyVars == <<unique_again, dpc, feed, keywords, news_items, fpc, racer, retry,
               scraper, uploader>>

\* the process starts: the environment is read when main looks at it
StartRun ==
    /\ pc \in {"idle", "done", "exit", "crashed"}
    /\ runs < MaxRuns
    /\ runs' = runs + 1
    /\ \E gap \in RunGaps : clock' = clock + gap
    /\ google_creds' \in {"missing", "invalid", "valid"}
    /\ sheets_id' \in {"missing", "set"}
    /\ initial_mode' \in BOOLEAN
    /\ pc' = "config"
    /\ ops' = NoOps
    /\ fetched' = <<>>
    /\ all_news_items' = <<>>
    /\ unique_news' = <<>>
    /\ next_i' = 1
    /\ total_collected' = 0
    /\ exit_code' = "none"
    /\ UNCHANGED <<script, worksheet>>
    /\ UNCHANGED studyVars

\* main: creds_dict, sheets_id = get_config()
GetConfig ==
    /\ pc = "config"
    /\ IF ConfigOk(google_creds, sheets_id)
       THEN pc' = "connect" /\ exit_code' = exit_code
       ELSE pc' = "exit" /\ exit_code' = 1
    /\ UNCHANGED <<script, initial_mode, google_creds, sheets_id, runs, clock, ops,
                   fetched, all_news_items, unique_news, next_i, total_collected,
                   worksheet>>
    /\ UNCHANGED studyVars

\* main: worksheet = setup_google_sheets(creds_dict, sheets_id)
SetupGoogleSheets ==
    /\ pc = "connect"
    /\ ops' = [ops EXCEPT !.sheets = @ + 1]
    /\ \E connected \in BOOLEAN :
          IF connected
          THEN pc' = "fetch" /\ exit_code' = exit_code
          ELSE pc' = "exit" /\ exit_code' = 1
    /\ UNCHANGED <<script, initial_mode, google_creds, sheets_id, runs, clock,
                   fetched, all_news_items, unique_news, next_i, total_collected,
                   worksheet>>
    /\ UNCHANGED studyVars

\* main: one iteration of `for rss_url in RSS_FEEDS`
FetchOneFeed ==
    /\ pc = "fetch"
    /\ Len(fetched) < NumFeeds
    /\ \E fd \in MainFeeds :
          LET result == FetchBy(script, fd, KEYWORDS, initial_mode, Now)
              failed == FetchFails(script, fd, KEYWORDS, initial_mode, Now)
          IN  /\ fetched' = Append(fetched, [failed |-> failed, items |-> result.items])
              /\ ops' = [ops EXCEPT !.feed = @ + 1,
                                    !.article = @ + result.lookups]
              /\ IF result.raised
                 THEN pc' = "crashed" /\ exit_code' = 1
                      /\ all_news_items' = all_news_items
                 ELSE pc' = pc /\ exit_code' = exit_code
                      /\ all_news_items' = all_news_items \o result.items
    /\ UNCHANGED <<script, initial_mode, google_creds, sheets_id, runs, clock,
                   unique_news, next_i, total_collected, worksheet>>
    /\ UNCHANGED studyVars

\* main after the feed loop: rss_scraper deduplicates and sorts into
\* unique_news; the enhanced script sorts all_news_items in place
DedupAndSort ==
    /\ pc = "fetch"
    /\ Len(fetched) = NumFeeds
    /\ LET to_sort == IF script = "rss_scraper"
                      THEN deduplicate_news_comprehensive(all_news_items)
                      ELSE all_news_items
       IN  IF SortRaises(to_sort)
           THEN /\ unique_news' = (IF script = "rss_scraper" THEN to_sort ELSE unique_news)
                /\ all_news_items' = all_news_items
                /\ pc' = "crashed"
                /\ exit_code' = 1
           ELSE /\ IF script = "rss_scraper"
                   THEN /\ unique_news' = SortByDate(to_sort)
                        /\ all_news_items' = all_news_items
                   ELSE /\ all_news_items' = SortByDate(to_sort)
                        /\ unique_news' = unique_news
                /\ pc' = "append"
                /\ exit_code' = exit_code
    /\ next_i' = 1
    /\ UNCHANGED <<script, initial_mode, google_creds, sheets_id, runs, clock, ops,
                   fetched, total_collected, worksheet>>
    /\ UNCHANGED studyVars

\* the list the append loop of main walks
ToAppend == IF script = "rss_scraper" THEN unique_news ELSE all_news_items

\* rss_scraper: add_news_to_sheet(worksheet, news_item) inside the append loop
AddNewsToSheet ==
    /\ pc = "append"
    /\ script = "rss_scraper"
    /\ next_i <= Len(ToAppend)
    /\ \E appended \in BOOLEAN :
          IF appended
          THEN /\ worksheet' = AppendRow(worksheet,
                                         Row(generate_simple_id(clock), ToAppend[next_i]))
               /\ clock' = clock + SleepAfterAppend
               /\ total_collected' = total_collected + 1
          ELSE /\ worksheet' = worksheet
               /\ clock' = clock
               /\ total_collected' = total_collected
    /\ ops' = [ops EXCEPT !.append = @ + 1, !.append_at = Append(@, clock)]
    /\ next_i' = next_i + 1
    /\ UNCHANGED <<script, initial_mode, google_creds, sheets_id, pc, runs, fetched,
                   all_news_items, unique_news, exit_code>>
    /\ UNCHANGED studyVars

\* enhanced: add_news_to_sheet(worksheet, news_item), then time.sleep(0.5)
AddNewsToSheetEnhanced ==
    /\ pc = "append"
    /\ script = "rss_scraper_enhanced"
    /\ next_i <= Len(ToAppend)
    /\ \E dup_read_ok, id_read_ok, appended \in BOOLEAN :
          LET news_item == ToAppend[next_i]
              duplicate == is_duplicate_news(worksheet, news_item.original_url, dup_read_ok)
              news_id   == generate_sequential_id(worksheet, id_read_ok, clock)
          IN  IF duplicate
              THEN /\ worksheet' = worksheet
                   /\ total_collected' = total_collected
                   /\ ops' = ops
              ELSE /\ ops' = [ops EXCEPT !.append = @ + 1,
                                         !.append_at = Append(@, clock),
                                         !.unread = IF appended /\ ~dup_read_ok
                                                    THEN @ + 1 ELSE @]
                   /\ IF appended
                      THEN /\ worksheet' = AppendRow(worksheet, Row(news_id, news_item))
                           /\ total_collected' = total_collected + 1
                      ELSE /\ worksheet' = worksheet
                           /\ total_collected' = total_collected
    /\ clock' = clock + SleepBetweenNews
    /\ next_i' = next_i + 1
    /\ UNCHANGED <<script, initial_mode, google_creds, sheets_id, pc, runs, fetched,
                   all_news_items, unique_news, exit_code>>
    /\ UNCHANGED studyVars

\* main returns after the append loop
Finish ==
    /\ pc = "append"
    /\ next_i > Len(ToAppend)
    /\ pc' = "done"
    /\ exit_code' = 0
    /\ UNCHANGED <<script, initial_mode, google_creds, sheets_id, runs, clock, ops,
                   fetched, all_news_items, unique_news, next_i, total_collected,
                   worksheet>>
    /\ UNCHANGED studyVars

Next ==
    \/ StartRun
    \/ GetConfig
    \/ SetupGoogleSheets
    \/ FetchOneFeed
    \/ DedupAndSort
    \/ AddNewsToSheet
    \/ AddNewsToSheetEnhanced
    \/ Finish

Spec == Init /\ [][Next]_vars

(***************************************************************************)
(* Enhanced script: runs that overlap in add_news_to_sheet                 *)
(***************************************************************************)
Racers == 1..NumRacers

ItemU == [original_url |-> LinkQ, pub_datetime |-> RecentDate]
ItemV == [original_url |-> LinkV, pub_datetime |-> RecentDate]

\* worksheets the overlapping runs may find
StartSheets == {<<>>, <<Row(<<"0", "0", "1">>, ItemV)>>, <<Row(<<"0", "0", "7">>, ItemU)>>}

RaceInit ==
    /\ script = "rss_scraper_enhanced"
    /\ initial_mode = FALSE
    /\ DedupIdle
    /\ FetchIdle
    /\ google_creds = "valid"
    /\ sheets_id = "set"
    /\ pc = "append"
    /\ runs = NumRacers
    /\ clock \in {0, 1}
    /\ ops = NoOps
    /\ fetched = <<>>
    /\ next_i = 1
    /\ total_collected = 0
    /\ exit_code = "none"
    /\ uploader = UploaderIdle
    /\ worksheet \in StartSheets
    /\ racer \in [Racers -> {[at |-> "check", item |-> it, checked |-> FALSE,
                              id_read |-> FALSE, id_seen |-> 0, news_id |-> <<>>] :
                                it \in {ItemU, ItemV}}]
    /\ retry = RetryIdle
    /\ scraper = ScraperIdle

raceRest == <<all_news_items, unique_news, unique_again, dpc, script, feed, keywords,
              initial_mode, news_items, fpc, google_creds, sheets_id, pc, runs, clock,
              ops, fetched, next_i, total_collected, exit_code, retry, scraper, uploader>>

\* add_news_to_sheet, first call: is_duplicate_news reads the worksheet
CheckDuplicate(p) ==
    /\ racer[p].at = "check"
    /\ \E read_ok \in BOOLEAN :
          racer' = [racer EXCEPT ![p].at =
                        IF is_duplicate_news(worksheet, racer[p].item.original_url, read_ok)
                        THEN "skipped" ELSE "genid",
                                 ![p].checked = read_ok]
    /\ UNCHANGED worksheet
    /\ UNCHANGED raceRest

\* add_news_to_sheet, second call: generate_sequential_id reads the worksheet
GenerateId(p) ==
    /\ racer[p].at = "genid"
    /\ \E read_ok \in BOOLEAN :
          racer' = [racer EXCEPT ![p].at = "append",
                                 ![p].id_read = read_ok,
                                 ![p].id_seen = Len(worksheet),
                                 ![p].news_id = generate_sequential_id(worksheet, read_ok, clock)]
    /\ UNCHANGED worksheet
    /\ UNCHANGED raceRest

\* add_news_to_sheet, third call: worksheet.append_row(row_data)
AppendRowStep(p) ==
    /\ racer[p].at = "append"
    /\ \E appended \in BOOLEAN :
          IF appended
          THEN /\ worksheet' = AppendRow(worksheet, Row(racer[p].news_id, racer[p].item))
               /\ racer' = [racer EXCEPT ![p].at = "appended"]
          ELSE /\ worksheet' = worksheet
               /\ racer' = [racer EXCEPT ![p].at = "failed"]
    /\ UNCHANGED raceRest

RaceNext ==
    \E p \in Racers : CheckDuplicate(p) \/ GenerateId(p) \/ AppendRowStep(p)

SpecRace == RaceInit /\ [][RaceNext]_vars

(***************************************************************************)
(* Claims about deduplicate_news_comprehensive                             *)
(***************************************************************************)
\* C2: no two records of the deduplicated list have the same original_url
\* once the query string is removed.
C2_UniqueCleanUrls ==
    dpc # "input" =>
        \A i, j \in 1..Len(unique_news) :
            i # j => SplitFirst(unique_news[i].original_url, "?")
                     # SplitFirst(unique_news[j].original_url, "?")

\* C2 witness: a record was dropped because its query-stripped URL was already kept
C2_Witness ==
    /\ dpc = "deduped"
    /\ Len(unique_news) = 2
    /\ \E i \in 1..Len(all_news_items) :
          /\ all_news_items[i].original_url = UrlUq
          /\ all_news_items[i].title = TitleD
          /\ \A k \in 1..Len(unique_news) : unique_news[k] # all_news_items[i]
          /\ \E k \in 1..Len(unique_news) : unique_news[k].original_url = UrlU

\* C3 as stated: no two records of the deduplicated list have titles whose
\* similarity is above 0.85, in either argument order.
C3_NoSimilarTitles ==
    dpc # "input" =>
        \A i, j \in 1..Len(unique_news) :
            i # j => ~AboveThreshold(calculate_similarity(unique_news[i].title,
                                                          unique_news[j].title))

\* C4: deduplicating the deduplicated list returns it unchanged.
C4_Idempotent == dpc = "again" => unique_again = unique_news

\* C4 witness: the second pass ran over a list of several kept records from
\* which the first pass had dropped one
C4_Witness ==
    /\ dpc = "again"
    /\ Len(unique_news) >= 2
    /\ Len(unique_news) < Len(all_news_items)

(***************************************************************************)
(* Claims about fetch_rss_news                                             *)
(***************************************************************************)
\* some keyword occurs, case-insensitively, in the entry's title plus description
KeywordOccurs(entry, kws) ==
    \E k \in 1..Len(kws) :
        Contains(Lower(kws[k]), Lower(entry.title \o <<" ">> \o EntryDescription(entry)))

\* the entries of the feed in which some keyword occurs
EntriesWithKeyword == {i \in 1..Len(feed.entries) : KeywordOccurs(feed.entries[i], keywords)}

HasSpace(kw) == \E i \in 1..Len(kw) : IsSpace(kw[i])
NoKeywordHasSpace == \A k \in 1..Len(keywords) : ~HasSpace(keywords[k])

\* every record carries the link of an entry in which some keyword occurs, and
\* there are no more records than such entries
RecordsOnlyFromKeywordEntries ==
    /\ Len(news_items) <= Cardinality(EntriesWithKeyword)
    /\ \A r \in 1..Len(news_items) :
          \E i \in EntriesWithKeyword : feed.entries[i].link = news_items[r].original_url

\* C1 as stated: an entry in whose title plus description no keyword occurs
\* yields no record, in both scripts and for every keyword list.
C1_NoKeywordNoRecord ==
    fpc = "fetched" => RecordsOnlyFromKeywordEntries

\* C1 amended: an entry in whose title plus description no keyword occurs
\* yields no record, in both scripts, for keyword lists whose keywords contain
\* no whitespace.
C1_NoKeywordNoRecordUnspaced ==
    (fpc = "fetched" /\ NoKeywordHasSpace) => RecordsOnlyFromKeywordEntries

\* C1 witness: a feed with one entry that has a keyword and one that has none
\* was fetched and gave exactly one record
C1_Witness ==
    /\ fpc = "fetched"
    /\ NoKeywordHasSpace
    /\ Len(feed.entries) = 2
    /\ Cardinality(EntriesWithKeyword) = 1
    /\ Len(news_items) = 1

\* C5: every record has a title of at most 200 and a description of at most
\* 500 characters.
C5_FieldLimits ==
    fpc = "fetched" =>
        \A i \in 1..Len(news_items) :
            /\ Len(news_items[i].title) <= TitleLimit
            /\ Len(news_items[i].description) <= DescriptionLimit

\* C5 witness: an entry with an over-long title and description gave a record
\* cut to exactly the two limits
C5_Witness ==
    /\ fpc = "fetched"
    /\ \E i \in 1..Len(feed.entries) :
          /\ Len(feed.entries[i].title) > TitleLimit
          /\ Len(feed.entries[i].description) > DescriptionLimit
    /\ \E i \in 1..Len(news_items) :
          /\ Len(news_items[i].title) = TitleLimit
          /\ Len(news_items[i].description) = DescriptionLimit

(***************************************************************************)
(* Claims about main and the worksheet                                     *)
(***************************************************************************)
\* C6 as stated: add_news_to_sheet never appends a record whose original_url
\* is that of a row already in the worksheet, so no two rows share a URL.
C6_NoRowWithKnownUrl ==
    \A i, j \in 1..Len(worksheet) :
        i # j => worksheet[i].original_url # worksheet[j].original_url

\* C7 as stated: no two data rows of the worksheet carry the same id.
C7_UniqueRowIds ==
    \A i, j \in 1..Len(worksheet) : i # j => worksheet[i].id # worksheet[j].id

BadConfig == google_creds \in {"missing", "invalid"} \/ sheets_id = "missing"

\* C9: with GOOGLE_CREDENTIALS missing or not JSON, or GOOGLE_SHEETS_ID
\* missing, the run ends with exit code 1 and performs no network operation:
\* no connection, no feed fetch, no article fetch, no append.
C9_ConfigErrorExitsFirst ==
    (BadConfig /\ pc \notin {"idle", "config"}) =>
        /\ pc = "exit"
        /\ exit_code = 1
        /\ ops = NoOps
        /\ total_collected = 0

\* C9 witness: a second run, after one that appended rows, exits on
\* credentials that are not JSON
C9_Witness ==
    /\ pc = "exit"
    /\ exit_code = 1
    /\ google_creds = "invalid"
    /\ runs = 2
    /\ worksheet # <<>>

RECURSIVE Concat(_, _)
\* the items of the fetched feeds, in feed order
Concat(log, i) == IF i > Len(log) THEN <<>> ELSE log[i].items \o Concat(log, i + 1)

Occurrences(seq, x) == Cardinality({i \in 1..Len(seq) : seq[i] = x})
SameRecords(s1, s2) ==
    /\ Len(s1) = Len(s2)
    /\ \A i \in 1..Len(s1) : Occurrences(s1, s1[i]) = Occurrences(s2, s1[i])

SomeFeedFailed == \E i \in 1..Len(fetched) : fetched[i].failed

\* C10: a feed that fails does not abort the run: main is not terminated by
\* the exception (a run with a failed feed ends early only when the later sort
\* raises on its records), it fetches every feed before it goes on, the records the
\* other feeds returned are all collected, and each record that survives
\* deduplication gets its add_news_to_sheet call.
C10_FeedFailureContained ==
    /\ (SomeFeedFailed /\ pc = "crashed") => SortRaises(ToAppend)
    /\ \A i \in 1..Len(fetched) : fetched[i].failed => fetched[i].items = <<>>
    /\ pc \in {"append", "done"} => Len(fetched) = NumFeeds
    /\ pc \in {"fetch", "append", "done"} =>
          SameRecords(all_news_items, Concat(fetched, 1))
    /\ (pc \in {"append", "done"} /\ script = "rss_scraper") =>
          /\ \A i \in 1..Len(unique_news) : Occurrences(all_news_items, unique_news[i]) > 0
          /\ all_news_items # <<>> => unique_news # <<>>
    /\ pc = "done" => next_i = Len(ToAppend) + 1

\* C10 witness: a run in which one feed failed and another returned a record
\* has finished and appended that record
C10_Witness ==
    /\ pc = "done"
    /\ SomeFeedFailed
    /\ \E i \in 1..Len(fetched) : ~fetched[i].failed /\ fetched[i].items # <<>>
    /\ total_collected > 0
    /\ runs = 1

(***************************************************************************)
(* Claims about overlapping runs                                           *)
(***************************************************************************)
RowsWithUrl(u) == {i \in 1..Len(worksheet) : worksheet[i].original_url = u}

\* C8: the duplicate check and the append are separate calls: two overlapping
\* runs holding the same URL that have both appended leave two rows with that
\* URL, and two runs that generated their ids from readings of the same rows
\* hold the same id.
C8_CheckThenAppendNotAtomic ==
    \A p, q \in Racers :
        p # q =>
            /\ (/\ racer[p].at = "appended"
                /\ racer[q].at = "appended"
                /\ racer[p].item.original_url = racer[q].item.original_url)
                   => Cardinality(RowsWithUrl(racer[p].item.original_url)) >= 2
            /\ (/\ racer[p].at \in {"append", "appended"}
                /\ racer[q].at \in {"append", "appended"}
                /\ racer[p].id_read /\ racer[q].id_read
                /\ racer[p].id_seen = racer[q].id_seen)
                   => racer[p].news_id = racer[q].news_id

\* C8 witness: on an empty worksheet both runs read the rows, found no
\* duplicate, and appended: two rows, same URL, same sequential id
C8_Witness ==
    /\ Len(worksheet) = 2
    /\ worksheet[1].original_url = worksheet[2].original_url
    /\ worksheet[1].id = worksheet[2].id
    /\ \A p \in {1, 2} : /\ racer[p].at = "appended"
                         /\ racer[p].checked
                         /\ racer[p].id_read

(***************************************************************************)
(* Claims about errors inside one feed                                     *)
(***************************************************************************)
\* what fetch_rss_news returns for a feed that holds only the given entry
SingleEntryItems(entry) ==
    FetchBy(script, ParsedFeed(<<entry>>), keywords, initial_mode, Now).items

RECURSIVE EntryByEntry(_)
\* the records of the entries from the i-th on, each entry fetched on its own
EntryByEntry(i) ==
    IF i > Len(feed.entries) THEN <<>>
    ELSE SingleEntryItems(feed.entries[i]) \o EntryByEntry(i + 1)

\* C11 as stated: an error raised while one entry is processed skips only that
\* entry, so a parsed feed returns exactly the records its entries give one by
\* one, those before and after the failing entry included.
C11_EntryErrorSkipsOnlyEntry ==
    (fpc = "fetched" /\ ~feed.parse_raises) => news_items = EntryByEntry(1)

(***************************************************************************)
(* Claims about the article image pipeline                                 *)
(***************************************************************************)
\* some stage of the pipeline fails for the entry
SomeStageFails(entry) ==
    \/ entry.pipeline # PipelineOk
    \/ entry.page_image = <<>>

\* C12: in rss_scraper every keyword-matching entry gives its record whichever
\* stage of the image pipeline fails, and the record's thumbnail_url is not
\* empty: it is the feed image, the uploaded image's URL, or the placeholder
\* (the placeholder when the feed gave no image and a stage failed).
C12_ImageFailureKeepsRecord ==
    (fpc = "fetched" /\ script = "rss_scraper") =>
        /\ Len(news_items) = Len(feed.entries)
        /\ \A i \in 1..Len(news_items) :
              /\ news_items[i].thumbnail_url # <<>>
              /\ news_items[i].thumbnail_url \in
                    {FeedImageUrl, DriveUrl(feed.entries[i].page_image), PlaceholderImage}
              /\ (FeedThumbnail(feed.entries[i]).url = <<>> /\ SomeStageFails(feed.entries[i]))
                    => news_items[i].thumbnail_url = PlaceholderImage

\* C12 witness: the article page had an image, the upload failed, and the
\* record came out with the placeholder
C12_Witness ==
    /\ fpc = "fetched"
    /\ script = "rss_scraper"
    /\ Len(feed.entries) = 1
    /\ feed.entries[1].media = "none"
    /\ feed.entries[1].link # <<>>
    /\ feed.entries[1].page_image = ArticleImage
    /\ feed.entries[1].pipeline = [PipelineOk EXCEPT !.upload = "none"]
    /\ Len(news_items) = 1
    /\ news_items[1].thumbnail_url = PlaceholderImage

(***************************************************************************)
(* Claims about the recency window                                         *)
(***************************************************************************)
\* the keyword test of the script finds a keyword in the entry
Matches(scr, entry, kws) ==
    LET title == IF scr = "rss_scraper"
                 THEN extract_source_from_title(entry.title).clean_title
                 ELSE entry.title
    IN  MatchedKeywords(kws, Lower(title \o <<" ">> \o EntryDescription(entry))) # <<>>

\* the date fields the script reads
DateFields(scr, entry) ==
    IF scr = "rss_scraper"
    THEN {entry.published_parsed, entry.updated_parsed, entry.published, entry.updated}
    ELSE {entry.published_parsed}

\* none of the date fields the script reads gives a date
LacksParseableDate(scr, entry) == \A d \in DateFields(scr, entry) : ~IsUsable(d)

\* the publish date the script resolves for an entry that has one
ResolvedDate(scr, entry) ==
    IF scr = "rss_scraper" THEN extract_publish_date(entry, Now)
    ELSE entry.published_parsed

\* the entry is dated inside the window
InsideWindow(scr, entry) ==
    /\ ~LacksParseableDate(scr, entry)
    /\ IsUsable(ResolvedDate(scr, entry))
    /\ DayOf(ResolvedDate(scr, entry)) >= WindowStart

\* the entries of the feed that the recency policy keeps and a keyword matches
EntriesToKeep ==
    {i \in 1..Len(feed.entries) :
        /\ Matches(script, feed.entries[i], keywords)
        /\ \/ initial_mode
           \/ LacksParseableDate(script, feed.entries[i])
           \/ InsideWindow(script, feed.entries[i])}

\* C13 as stated: in normal mode no record is dated before now minus 7 days,
\* and every keyword-matching entry dated inside the window or lacking any
\* parseable date gives a record; in backfill mode every keyword-matching
\* entry gives a record whatever its age.
C13_RecencyWindow ==
    fpc = "fetched" =>
        /\ ~initial_mode =>
              \A r \in 1..Len(news_items) : DayOf(news_items[r].pub_datetime) >= WindowStart
        /\ Len(news_items) >= Cardinality(EntriesToKeep)

(***************************************************************************)
(* Claims about keyword matching in rss_scraper                            *)
(***************************************************************************)
\* the title up to its last " - ", without surrounding whitespace
HeadlineOf(title) ==
    IF ~Contains(SourceSeparator, title) THEN title
    ELSE LET k == CHOOSE i \in 1..Len(title) :
                      /\ OccursAt(SourceSeparator, title, i)
                      /\ \A j \in (i + 1)..Len(title) : ~OccursAt(SourceSeparator, title, j)
         IN  Strip(Slice(title, 1, k - 1))

\* some keyword occurs, case-insensitively, in the headline plus description
KeywordInHeadline(entry, kws) ==
    \E k \in 1..Len(kws) :
        Contains(Lower(kws[k]),
                 Lower(HeadlineOf(entry.title) \o <<" ">> \o EntryDescription(entry)))

\* processing some entry that has a keyword in its headline or description
\* raises (the function-wide handler then returns no record at all)
SomeSelectedEntryRaises ==
    \E i \in 1..Len(feed.entries) :
        /\ KeywordInHeadline(feed.entries[i], keywords)
        /\ feed.entries[i].media = "enc_nohref"

BackfillFetched ==
    /\ fpc = "fetched"
    /\ script = "rss_scraper"
    /\ initial_mode
    /\ ~feed.parse_raises

\* the links of the entries that satisfy Sel, in feed order
LinksOf(Sel(_)) ==
    LET sel == SelectSeq(feed.entries, Sel) IN [i \in 1..Len(sel) |-> sel[i].link]

RecordLinks == [i \in 1..Len(news_items) |-> news_items[i].original_url]

\* C14 as stated: in backfill mode rss_scraper gives a record for exactly the
\* entries in whose title plus description a keyword occurs, whichever part of
\* the title holds it (feeds in which no entry raises).
C14_RecordIffKeywordInTitle ==
    (BackfillFetched /\ ~SomeSelectedEntryRaises) =>
        RecordLinks = LinksOf(LAMBDA e : KeywordOccurs(e, keywords))

\* C14 amended: in backfill mode rss_scraper gives a record for exactly the
\* entries in which a keyword occurs in the title cut at its last " - " plus
\* the description, and none at all if processing one of these entries raises;
\* a keyword that occurs only in the " - source" suffix selects nothing.
C14_RecordIffKeywordInHeadline ==
    BackfillFetched =>
        RecordLinks = IF SomeSelectedEntryRaises THEN <<>>
                      ELSE LinksOf(LAMBDA e : KeywordInHeadline(e, keywords))

\* C14 witness: of two entries, the one with the keyword in its headline gave
\* a record and the one with the keyword only in its source suffix gave none
C14_Witness ==
    /\ BackfillFetched
    /\ Len(feed.entries) = 2
    /\ \E i \in 1..2 : /\ KeywordOccurs(feed.entries[i], keywords)
                       /\ ~KeywordInHeadline(feed.entries[i], keywords)
    /\ \E i \in 1..2 : KeywordInHeadline(feed.entries[i], keywords)
    /\ Len(news_items) = 1

(***************************************************************************)
(* Claims about the fields of a record                                     *)
(***************************************************************************)
QueryMark == <<"?">>

\* C15 as stated: every record's original_url is the entry's link with its
\* query parameters stripped, so no original_url holds a query string.
C15_UrlQueryStripped ==
    fpc = "fetched" =>
        \A r \in 1..Len(news_items) : ~Contains(QueryMark, news_items[r].original_url)

\* the title from after its last " - ", without surrounding whitespace
SourceOf(title) ==
    LET k == CHOOSE i \in 1..Len(title) :
                 /\ OccursAt(SourceSeparator, title, i)
                 /\ \A j \in (i + 1)..Len(title) : ~OccursAt(SourceSeparator, title, j)
    IN  Strip(Slice(title, k + Len(SourceSeparator), Len(title)))

SourceSuffixes == {SuffixNews, SuffixPaper, SuffixDaily}

\* a source that ends in none of the removed words and not in dots
PlainSource(s) ==
    /\ s # UnknownSource
    /\ \A suf \in SourceSuffixes : ~EndsWith(s, suf)
    /\ ~EndsWith(s, <<".", ".">>)

\* rss_scraper returned one record per entry of the feed
OneRecordPerEntry ==
    /\ fpc = "fetched"
    /\ script = "rss_scraper"
    /\ Len(news_items) = Len(feed.entries)

HasTagMarkup(s) ==
    \E i \in 1..Len(s) :
        /\ s[i] = "<"
        /\ i + 1 <= Len(s) /\ s[i + 1] # ">"
        /\ \E j \in (i + 2)..Len(s) : s[j] = ">"

\* C17: in both scripts no record's description contains HTML tag markup.
C17_DescriptionHtmlStripped ==
    fpc = "fetched" =>
        \A i \in 1..Len(news_items) : ~HasTagMarkup(news_items[i].description)

\* the requests of a trace and those of them that failed
IsGet(e) == e.op = "get"
IsFailedGet(e) == e.op = "get" /\ e.outcome # "ok"

\* requests and sleeps alternate, starting with a request; the sleep after
\* the k-th failed request (k = 0, 1, ...) lasts 2^k seconds; a successful
\* request is the last event and its response is returned; there are at most
\* max_retries requests and no sleep follows request number max_retries;
\* None is returned exactly after max_retries failed requests
RetryShape ==
    LET tr == retry.trace
        m  == retry.max_retries
    IN  /\ Len(SelectSeq(tr, IsGet)) <= m
        /\ Len(tr) <= IF m = 0 THEN 0 ELSE 2 * m - 1
        /\ \A i \in 1..Len(tr) :
              /\ i % 2 = 1 => IsGet(tr[i])
              /\ i % 2 = 0 => /\ tr[i] = Sleep(2 ^ (i \div 2 - 1))
                              /\ IsFailedGet(tr[i - 1])
              /\ (IsGet(tr[i]) /\ tr[i].outcome = "ok") =>
                     /\ i = Len(tr)
                     /\ retry.pc = "done"
                     /\ retry.result = "response"
              /\ (IsFailedGet(tr[i]) /\ i < Len(tr)) => ~IsGet(tr[i + 1])
        /\ retry.result = "response" =>
              /\ tr # <<>>
              /\ tr[Len(tr)] = Get("ok")
        /\ retry.result = "None" =>
              /\ retry.pc = "done"
              /\ Len(SelectSeq(tr, IsFailedGet)) = m
              /\ Len(SelectSeq(tr, IsGet)) = m
        /\ retry.pc = "done" <=> retry.result # "none"
        /\ (retry.pc = "for" /\ retry.attempt < m) =>
              Len(SelectSeq(tr, IsFailedGet)) = retry.attempt

\* C18: _fetch_with_retry issues at most max_retries requests, returns the
\* first successful response without a further request, sleeps 2^k seconds
\* after the k-th failed attempt but not after the last one, returns None
\* after max_retries failures, and terminates, for every max_retries >= 0
\* and every pattern of failures.
C18_BoundedRetryWithBackoff == [](RetryShape) /\ <>(retry.pc = "done")

\* C18 witness: max_retries = 3, three failures, sleeps of 1 and 2 seconds
\* after the first two, None returned
C18_Witness ==
    /\ retry.pc = "done"
    /\ retry.max_retries = 3
    /\ retry.result = "None"
    /\ Len(retry.trace) = 5
    /\ retry.trace[2] = Sleep(1)
    /\ retry.trace[4] = Sleep(2)
    /\ IsFailedGet(retry.trace[5])

\* the sleep each script takes for the rate limit, in ticks
FixedSleep == IF script = "rss_scraper" THEN SleepAfterAppend ELSE SleepBetweenNews

\* C19: within one run, between any two successive append_row attempts the
\* script's fixed sleep elapses (3 s in rss_scraper, 0.5 s in the enhanced
\* script), also when the earlier attempt failed.
C19_SleepBetweenAppendAttempts ==
    \A i \in 2..Len(ops.append_at) :
        ops.append_at[i] - ops.append_at[i - 1] >= FixedSleep

(***************************************************************************)
(* Order of the deduplicated list                                          *)
(***************************************************************************)
\* the test the loop applies to a record against an earlier one: the same
\* query-stripped URL, or a title more than 85% similar to the earlier title
DuplicateOf(later, earlier) ==
    \/ CleanUrl(later) = CleanUrl(earlier)
    \/ AboveThreshold(calculate_similarity(DedupTitle(later), DedupTitle(earlier)))

\* the scan appended the record at input position i to its result
KeptAt(i) ==
    Len(deduplicate_news_comprehensive(SubSeq(all_news_items, 1, i)))
        = Len(deduplicate_news_comprehensive(SubSeq(all_news_items, 1, i - 1))) + 1

\* the output is the input at some set of positions, in input order, and a
\* non-empty input has its first record first in the output
StableFromFirst ==
    /\ \E S \in SUBSET (1..Len(all_news_items)) :
          unique_news = KeepPositions(all_news_items, LAMBDA p : p \in S)
    /\ unique_news = KeepPositions(all_news_items, KeptAt)
    /\ all_news_items # <<>> =>
          /\ unique_news # <<>>
          /\ unique_news[1] = all_news_items[1]

\* C20 as stated: the output is a subsequence of the input that starts with
\* the first input record, and of two input records that duplicate one
\* another the later one is never the one kept.
C20_FirstOfDuplicatesKept ==
    dpc = "deduped" =>
        /\ StableFromFirst
        /\ \A i, j \in 1..Len(all_news_items) :
              (/\ i < j
               /\ DuplicateOf(all_news_items[j], all_news_items[i])
               /\ DuplicateOf(all_news_items[i], all_news_items[j])) => ~KeptAt(j)

\* C20 amended: the output is a subsequence of the input that starts with
\* the first input record; a record is dropped exactly when it duplicates an
\* earlier record that was kept, so a kept record precedes every record
\* dropped because of it.
C20_FirstOfKeptDuplicatesKept ==
    dpc = "deduped" =>
        /\ StableFromFirst
        /\ \A j \in 1..Len(all_news_items) :
              ~KeptAt(j) <=>
                  \E i \in 1..(j - 1) :
                      KeptAt(i) /\ DuplicateOf(all_news_items[j], all_news_items[i])

\* C20 witness: the second record duplicated the first and was dropped, the
\* third shares its URL with the dropped one only and was kept
C20_Witness ==
    /\ dpc = "deduped"
    /\ Len(all_news_items) = 3
    /\ DuplicateOf(all_news_items[2], all_news_items[1])
    /\ CleanUrl(all_news_items[3]) = CleanUrl(all_news_items[2])
    /\ ~DuplicateOf(all_news_items[3], all_news_items[1])
    /\ unique_news = <<all_news_items[1], all_news_items[3]>>

(***************************************************************************)
(* Claims about ArticleImageScraper                                        *)
(***************************************************************************)
\* C23: _is_excluded_image rejects every URL that encodes a size WxH with
\* W < 200 or H < 150 (one to three digits each), and does not reject a URL
\* only because it encodes a size with W >= 200 and H >= 150.
C23_SmallEncodedSizeRejected ==
    scraper.pc = "checked" =>
        scraper.excluded <=> (scraper.width < MinWidth \/ scraper.height < MinHeight)

\* the image a returned value stands for: the URL, or the URL the data URL
\* was made from
ImageOf(result) ==
    IF OccursAt(DataPrefix, result, 1) THEN Slice(result, Len(DataPrefix) + 1, Len(result))
    ELSE result

\* the candidates of the page that measure at least 200x150
Qualifying(page) ==
    {u \in CollectCandidates(page) :
        /\ page.sizes[u].measured
        /\ page.sizes[u].width >= MinWidth
        /\ page.sizes[u].height >= MinHeight}

\* C21: extract_largest_image never returns an image that measures less than
\* 200 wide or 150 high, and returns an image of the largest measured area
\* among all the candidates of the page that measure at least 200x150,
\* however many candidates the page has.
C21_LargestQualifyingImage ==
    (scraper.pc = "extracted" /\ scraper.page.fetch = "ok") =>
        IF Qualifying(scraper.page) = {} THEN scraper.result = <<>>
        ELSE /\ ImageOf(scraper.result) \in Qualifying(scraper.page)
             /\ \A v \in Qualifying(scraper.page) :
                   Area(scraper.page.sizes[ImageOf(scraper.result)])
                       >= Area(scraper.page.sizes[v])

LogoWord == <<"l", "o", "g", "o">>

\* the image references of a page: og:image and the src / data-src of its <img>s
References(page) ==
    ({page.og} \cup {page.imgs[i].src : i \in 1..Len(page.imgs)}
               \cup {page.imgs[i].data_src : i \in 1..Len(page.imgs)}) \ {<<>>}

\* the page has exactly one image reference and its URL contains "logo"
OnlyLogoReference(page) ==
    /\ Cardinality(References(page)) = 1
    /\ \A u \in References(page) : Contains(LogoWord, Lower(u))

\* C22: for a page whose only image reference has a URL containing "logo",
\* extract_largest_image returns None, whether the reference is og:image, an
\* image of the content area or an image of the general <img> scan.
C22_LogoNeverReturned ==
    (scraper.pc = "extracted" /\ OnlyLogoReference(scraper.page)) => scraper.result = <<>>

\* C22 witness: the page was fetched, its one <img> outside the content area
\* is a logo that would measure 500x400, and None was returned
C22_Witness ==
    /\ scraper.pc = "extracted"
    /\ scraper.page.fetch = "ok"
    /\ scraper.page.og = <<>>
    /\ Len(scraper.page.imgs) = 1
    /\ ~scraper.page.imgs[1].in_article
    /\ Contains(LogoWord, Lower(scraper.page.imgs[1].src))
    /\ scraper.page.sizes[urljoin(ArticleUrl, scraper.page.imgs[1].src)] = Measured(500, 400)
    /\ scraper.result = <<>>

(***************************************************************************)
(* Claims about extract_publish_date                                       *)
(***************************************************************************)
\* the four date fields in the order of the claim
DateChain(entry) ==
    <<entry.published_parsed, entry.updated_parsed, entry.published, entry.updated>>

\* the first field of the chain that is present and converts, else now
FirstUsableDate(entry) ==
    LET usable == {k \in 1..Len(DateChain(entry)) :
                      DateChain(entry)[k] # NoDate /\ DateChain(entry)[k] # BadDate}
    IN  IF usable = {} THEN Now ELSE DateChain(entry)[SetMin(usable)]

RunRows == SubSeq(worksheet, Len(worksheet) - total_collected + 1, Len(worksheet))

\* C25: in both main scripts the rows one run appends to the sheet are in
\* non-decreasing order of publish datetime, whatever the feeds returned and
\* whichever appends failed or were skipped.
C25_AppendedInDateOrder ==
    \A i, j \in 1..Len(RunRows) :
        i < j => RunRows[i].pub_datetime <= RunRows[j].pub_datetime

\* C25 witness: a finished run collected a newer record before an older one
\* and appended both, the older one first
C25_Witness ==
    /\ pc = "done"
    /\ total_collected = 2
    /\ LET collected == Concat(fetched, 1)
       IN  /\ Len(collected) = 2
           /\ collected[1].pub_datetime > collected[2].pub_datetime
           /\ RunRows[1].original_url = collected[2].original_url
           /\ RunRows[2].original_url = collected[1].original_url

\* a run of rss_scraper ended in the sort, on records of both kinds of datetime
SortCrashed == pc = "crashed" /\ SortRaises(ToAppend)

(***************************************************************************)
(* Claims about the duplicate check of the enhanced script                 *)
(***************************************************************************)
\* C26: in the enhanced script a row is appended only after a duplicate check
\* that read the existing rows: when get_all_records raises inside
\* is_duplicate_news, add_news_to_sheet appends nothing.
C26_NoAppendWithoutReadCheck ==
    script = "rss_scraper_enhanced" => ops.unread = 0

(***************************************************************************)
(* Claims about what the deduplicator drops                                *)
(***************************************************************************)
\* the record is one of the records of the output
InOutput(news) == \E k \in 1..Len(unique_news) : unique_news[k] = news

ScraperFindsImage(entry) ==
    /\ FeedThumbnail(entry).url = <<>>
    /\ ~FeedThumbnail(entry).raised
    /\ entry.link # <<>>
    /\ entry.pipeline.scrape = "ok"
    /\ entry.page_image # <<>>

\* every stage after the scraper succeeds
LaterStagesOk(entry) ==
    /\ entry.pipeline.optimize = "ok"
    /\ entry.pipeline.drive = "ok"
    /\ entry.pipeline.folder = "ok"
    /\ entry.pipeline.upload = "ok"

\* C28: in rss_scraper.process_article_image the value extract_first_image
\* returns and download_and_optimize receives is an http(s) image URL, never
\* an inline data URL; so when the scraper finds an image and the later
\* stages work, the record carries the uploaded image and not the placeholder.
C28_ScraperHandsOverHttpUrl ==
    (fpc = "fetched" /\ script = "rss_scraper") =>
        \A i \in 1..Len(feed.entries) :
            ScraperFindsImage(feed.entries[i]) =>
                /\ ~IsInlineData(ExtractedImage(feed.entries[i]))
                /\ LaterStagesOk(feed.entries[i]) =>
                      /\ i <= Len(news_items)
                      /\ news_items[i].thumbnail_url
                            = DriveUrl(feed.entries[i].page_image)

(***************************************************************************)
(* google_drive_uploader.py: GoogleDriveUploader                           *)
(***************************************************************************)
\* ids Drive may give a folder and an uploaded file, and names of image files
FolderIds == {<<"d", "1">>, <<"d", "2">>}
FileIds == {<<"f", "1">>, <<"f", "2">>}
Filenames == {<<"a", ".", "j", "p", "g">>, <<"b", ".", "j", "p", "g">>,
              <<"c", ".", "j", "p", "g">>}

\* f"https://drive.google.com/uc?id={file_id}"
PublicUrl(file_id) == <<"u", "c", "?", "i", "d", "=">> \o file_id

\* one request to the Drive API and whether execute() returned
DriveRequest(op, ok) == [op |-> op, ok |-> ok]

\* an upload_image without its except clause: the exception leaves the method
UploadNoExcept(u) == [u EXCEPT !.pc = "raised"]

\* upload_image: `except Exception: return None`
UploadExcept(u) == [u EXCEPT !.pc = "returned", !.result = <<>>]

\* GoogleDriveUploader(credentials_dict) is constructed (folder_id None) and
\* process_article_image has a file name for the processed image
DriveInit ==
    /\ script = "rss_scraper"
    /\ initial_mode = FALSE
    /\ DedupIdle
    /\ FetchIdle
    /\ google_creds = "valid"
    /\ sheets_id = "set"
    /\ pc = "idle"
    /\ runs = 0
    /\ clock = 0
    /\ ops = NoOps
    /\ fetched = <<>>
    /\ next_i = 1
    /\ total_collected = 0
    /\ exit_code = "none"
    /\ worksheet = <<>>
    /\ racer = <<>>
    /\ retry = RetryIdle
    /\ scraper = ScraperIdle
    /\ \E filename \in Filenames :
          uploader = [pc |-> "new", folder_id |-> <<>>, folder_requests |-> <<>>,
                      filename |-> filename, requests |-> <<>>, file_id |-> <<>>,
                      result |-> <<>>]

uploaderRest == <<all_news_items, unique_news, unique_again, dpc, script, feed, keywords,
                  initial_mode, news_items, fpc, google_creds, sheets_id, pc, runs, clock,
                  ops, fetched, next_i, total_collected, exit_code, worksheet, racer, retry,
                  scraper>>

\* setup_news_images_folder: search the folder, create it when the search
\* finds none; any exception leaves folder_id as it was and returns None
SetupNewsImagesFolder ==
    /\ uploader.pc = "new"
    /\ \E list \in {"found", "empty", "raises"}, create \in {"ok", "raises"},
          id \in FolderIds :
          uploader' =
              [uploader EXCEPT
                  !.pc = "folder",
                  !.folder_id = IF list = "found" \/ (list = "empty" /\ create = "ok")
                                THEN id ELSE <<>>,
                  !.folder_requests =
                      IF list = "empty"
                      THEN <<DriveRequest("files.list", TRUE),
                             DriveRequest("files.create", create = "ok")>>
                      ELSE <<DriveRequest("files.list", list = "found")>>]
    /\ UNCHANGED uploaderRest

\* upload_image up to its first request: None when no folder id is set
UploadImage ==
    /\ uploader.pc \in {"new", "folder"}
    /\ uploader' = IF uploader.folder_id = <<>>
                   THEN [uploader EXCEPT !.pc = "returned", !.result = <<>>]
                   ELSE [uploader EXCEPT !.pc = "create"]
    /\ UNCHANGED uploaderRest

\* upload_image: self.service.files().create(...).execute(); file_id = file['id']
FilesCreate ==
    /\ uploader.pc = "create"
    /\ \E ok \in BOOLEAN, id \in FileIds :
          LET sent == [uploader EXCEPT
                          !.requests = Append(@, DriveRequest("files.create", ok))]
          IN  uploader' = IF ok
                          THEN [sent EXCEPT !.pc = "permission", !.file_id = id]
                          ELSE UploadExcept(sent)
    /\ UNCHANGED uploaderRest

\* upload_image: self.service.permissions().create(...).execute(), then the
\* public link is returned
PermissionsCreate ==
    /\ uploader.pc = "permission"
    /\ \E ok \in BOOLEAN :
          LET sent == [uploader EXCEPT
                          !.requests = Append(@, DriveRequest("permissions.create", ok))]
          IN  uploader' = IF ok
                          THEN [sent EXCEPT !.pc = "returned",
                                            !.result = PublicUrl(sent.file_id)]
                          ELSE UploadExcept(sent)
    /\ UNCHANGED uploaderRest

DriveNext ==
    \/ SetupNewsImagesFolder
    \/ UploadImage
    \/ FilesCreate
    \/ PermissionsCreate

SpecDrive == DriveInit /\ [][DriveNext]_vars

(***************************************************************************)
(* Claims about GoogleDriveUploader                                        *)
(***************************************************************************)
\* C29: upload_image returns a public URL only after the file creation and
\* then the public-read permission grant have both succeeded; with no folder
\* id it returns None without a Drive request; when either request fails it
\* returns None and does not raise.
C29_UrlOnlyAfterCreateAndGrant ==
    /\ uploader.pc # "raised"
    /\ uploader.pc \in {"new", "folder", "create", "permission"} => uploader.result = <<>>
    /\ uploader.pc = "returned" =>
          /\ uploader.result # <<>> =>
                /\ uploader.requests = <<DriveRequest("files.create", TRUE),
                                         DriveRequest("permissions.create", TRUE)>>
                /\ uploader.result = PublicUrl(uploader.file_id)
          /\ uploader.folder_id = <<>> =>
                /\ uploader.result = <<>>
                /\ uploader.requests = <<>>
          /\ (\E i \in 1..Len(uploader.requests) : ~uploader.requests[i].ok) =>
                uploader.result = <<>>

\* C29 witness: the folder was created, the file uploaded and made public,
\* and the public URL of the file returned
C29_Witness ==
    /\ uploader.pc = "returned"
    /\ Len(uploader.folder_requests) = 2
    /\ uploader.folder_id # <<>>
    /\ Len(uploader.requests) = 2
    /\ uploader.requests[1].ok
    /\ uploader.requests[2].ok
    /\ uploader.result = PublicUrl(uploader.file_id)

\* an upload whose permission grant failed returned None
GrantFailed ==
    /\ uploader.pc = "returned"
    /\ Len(uploader.requests) = 2
    /\ ~uploader.requests[2].ok
    /\ uploader.result = <<>>

====
